---- MODULE Spec2Model ----
(***************************************************************************)
(* A model of the fetch / decode pipeline of the seer crawler              *)
(* (evm/generators.go, the per-chain client template).                     *)
(*                                                                         *)
(*   Decoder : Client.DecodeProtoEntireBlockToLabels, one goroutine per    *)
(*             block of the batch, gated by semaphoreChan, errors sent on  *)
(*             errorChan and drained after wg.Wait.                        *)
(*   Fetcher : Client.FetchBlocksInRangeAsync, one goroutine per block     *)
(*             number, gated by sem, errors sent on errChan.               *)
(*                                                                         *)
(* Each goroutine is a program counter machine.  A step is one access to   *)
(* shared state (a channel, a Once, a mutex-guarded slice, a shared        *)
(* variable) together with the goroutine-local computation that follows    *)
(* it; a critical section under a mutex is one step.  What the environment *)
(* answers (an RPC result, whether a text parses or decodes) is chosen     *)
(* when the call is made.                                                  *)
(***************************************************************************)
EXTENDS Integers, Naturals, Sequences, FiniteSets, Bags, TLC

(* ------------------------------ bounds -------------------------------- *)

\* blocks in a decoded batch; the threads argument ranges over 1..MaxBlocks
\* (a larger value never makes the semaphore bind)
MaxBlocks == 2
\* transactions and logs in a decoded batch, over all its blocks
MaxItems == 2
\* ABI entries in abiMap
NumEntries == 1
\* block numbers in a fetched range [from, to]; maxRequests ranges over
\* 1..MaxRange
MaxRange == 3
\* largest value of from
MaxFrom == 1
\* blocks in a range scanned for logs
MaxSpan == 8
\* table names resolved in a run
MaxLookups == 2
\* well-formed records, told apart by their natural key, in a database write
MaxKeys == 1
\* operations on the ABI jobs in a run
MaxOps == 2
\* ids of ABI jobs handed out in a run
MaxJobIds == 4
\* entries of the list given to CopyAbiJobs
MaxCopy == 2
\* highest block number in the block index read by ReadUpdates
MaxIndexBlock == 3
\* highest minBlocksToSync given to ReadUpdates
MaxMinBlocks == 1
\* logs the scan of a fetched range returns
MaxLogs == 2
\* records handed to a bulk insert
MaxRecords == 2
\* calls of GetTransactionsLabels and GetEventsLabels on one abiMap
MaxLabelCalls == 3
\* transactions or logs of a call that hit an entry of abiMap
MaxHits == 2

Entries == 1..NumEntries
BlockIds == 1..MaxBlocks
BlockNumbers == 0..(MaxFrom + MaxRange - 1)

(* ============================= STATE ================================== *)

(* the state of DecodeProtoEntireBlockToLabels *)
VARIABLES
    threads,          \* argument: concurrency limit
    addRawTransactions, \* argument
    batch,            \* protoBlocksBatch.Blocks: per block, its transactions,
                      \* each with its input and the topics of its logs
    dNext,            \* index of the next block the range loop spawns
    semaphoreChan,    \* number of tokens in the buffered channel
    wgDecode,         \* sync.WaitGroup counter
    errorChan,        \* buffered channel of errors
    decodeErr,        \* the error variable declared outside the goroutines
    onceState,        \* entry.Once : "new" | "running" | "done"
    abi,              \* entry.Abi : 0 is nil, n > 0 the descriptor of the n-th parse
    parseCount,       \* how many times GetABI ran on the entry (history)
    wk,               \* the goroutine of each block
    labels, txLabels, rawTransactions, \* shared output slices
    dResult           \* what the call returned

dArgs == <<threads, addRawTransactions, batch>>
dSync == <<dNext, semaphoreChan, wgDecode>>
dOnce == <<onceState, abi, parseCount>>
dOut == <<labels, txLabels, rawTransactions, dResult>>

decVars == <<dArgs, dSync, errorChan, decodeErr, dOnce, wk, dOut>>

(* the state of FetchBlocksInRangeAsync *)
VARIABLES
    from, to,         \* arguments: the block range
    maxRequests,      \* argument: size of the semaphore
    fNext,            \* the block number the range loop spawns next
    sem,              \* number of tokens in the buffered channel
    wgFetch,          \* sync.WaitGroup counter
    errChan,          \* buffered channel of errors
    blocks,           \* the shared slice of fetched blocks, in append order
    task,             \* the goroutine of each block number
    fResult,          \* what the call returned
    pipe,             \* what FetchAsProtoBlocksWithEvents returned
    seq               \* FetchBlocksInRange: its loop and what it returned

fArgs == <<from, to, maxRequests>>
fetchVars == <<fArgs, fNext, sem, wgFetch, errChan, blocks, task, fResult, pipe, seq>>

(* the state of ClientFilterLogs *)
VARIABLES
    q,                \* argument: the query, FromBlock and ToBlock
    provider,         \* how the node answers eth_getLogs
    fromBlock,        \* first block of the next window
    batchStep,        \* nextBlock - fromBlock of the next window, before clipping
    logs,             \* the logs gathered, as the blocks they belong to
    windows,          \* the windows whose logs were appended, in order (history)
    skipped,          \* the windows given up on, in order (history)
    asked,            \* the windows requested so far (history)
    flResult          \* what the call returned

scanVars == <<q, provider, fromBlock, batchStep, logs, windows, skipped, asked,
              flResult>>

(* the table names resolved so far *)
VARIABLES
    lookups           \* the calls of the table-name functions, with results

namesVars == <<lookups>>

(* the state of the database and of the call writing to it *)
VARIABLES
    db,               \* the committed rows
    txn,              \* the open transaction: its state and the rows it sees
    wcall             \* the running (or last) call of WriteIndexes or
                      \* WriteDataToCustomerDB

dbVars == <<db, txn, wcall>>

(* the table abi_jobs and the last operation on it *)
VARIABLES
    jobs,             \* the rows of abi_jobs, by id
    jcall             \* the last call of an operation on the jobs

jobsVars == <<jobs, jcall>>

(* the block index of a chain and the last calls of the functions reading it *)
VARIABLES
    index,            \* the rows of the chain's blocks table
    updates,          \* the last call of ReadUpdates and what it returned
    bounds            \* the last call of RetrievePathsAndBlockBounds

updatesVars == <<index, updates, bounds>>

(* the last bulk insert built *)
VARIABLES
    bulk              \* the call, the statement it sent and what it returned

bulkVars == <<bulk>>

(* the last call of GetTransactionsLabels or GetEventsLabels *)
VARIABLES
    lcall             \* the call, where it stopped and what it returned

labelsVars == <<lcall>>

\* what an action of one call leaves alone: the state of the other calls
notDec == <<fetchVars, scanVars, namesVars, dbVars, jobsVars, updatesVars,
             bulkVars, labelsVars>>
notFetch == <<decVars, scanVars, namesVars, dbVars, jobsVars, updatesVars,
               bulkVars, labelsVars>>
notScan == <<decVars, fetchVars, namesVars, dbVars, jobsVars, updatesVars,
              bulkVars, labelsVars>>
notNames == <<decVars, fetchVars, scanVars, dbVars, jobsVars, updatesVars,
               bulkVars, labelsVars>>
notDb == <<decVars, fetchVars, scanVars, namesVars, jobsVars, updatesVars,
            bulkVars, labelsVars>>
notJobs == <<decVars, fetchVars, scanVars, namesVars, dbVars, updatesVars,
              bulkVars, labelsVars>>
notUpdates == <<decVars, fetchVars, scanVars, namesVars, dbVars, jobsVars,
                 bulkVars, labelsVars>>
notBulk == <<decVars, fetchVars, scanVars, namesVars, dbVars, jobsVars,
              updatesVars, labelsVars>>
\* (a call of the label functions also writes the Once and the Abi of entries)
notLabels == <<fetchVars, scanVars, namesVars, dbVars, jobsVars, updatesVars,
                bulkVars>>

(* ============================ DECODER ================================= *)

NoResult == [returned |-> FALSE]

RECURSIVE SumSeq(_)
SumSeq(s) == IF s = <<>> THEN 0 ELSE Head(s) + SumSeq(Tail(s))

\* tx.Input: a plain value transfer, a call of a function abiMap has an entry
\* for, a call of one it has none for
Inputs == {"0x", "0xa9059cbb00", "0x0123456700"}

\* e.Topics: none, the topic of an event abiMap has an entry for, the topic of
\* one it has none for
TopicLists == {<<>>, <<"0xddf252ad">>, <<"0x8c5be1e5">>}

\* the selectors abiMap has an entry for (under the one address of the batch)
abiMap == {"0xa9059cbb", "0xddf252ad", "0x0"}

\* a transaction: its input and the topics of each of its logs (a transaction
\* with logs counts 1 + len(tx.Logs) items)
Txs == [Input : Inputs,
        Logs : UNION {[1..n -> TopicLists] : n \in 0..(MaxItems - 1)}]

\* a block: its transactions
BlockShapes == UNION {[1..n -> Txs] : n \in 0..MaxItems}

TotalTxs(bs) == SumSeq([i \in 1..Len(bs) |-> Len(bs[i])])
TotalLogs(bs) ==
    SumSeq([i \in 1..Len(bs) |->
              SumSeq([t \in 1..Len(bs[i]) |-> Len(bs[i][t].Logs)])])

Batches ==
    {bs \in UNION {[1..n -> BlockShapes] : n \in 0..MaxBlocks} :
        TotalTxs(bs) + TotalLogs(bs) <= MaxItems}

nBlocks == Len(batch)
NumTxs(b) == Len(batch[b])
NumLogs(b, t) == Len(batch[b][t].Logs)

\* if len(tx.Input) < 10
DirectTransfer(input) == Len(input) < 10

\* selector := tx.Input[:10]
InputSelector(input) == SubSeq(input, 1, 10)

\* topicSelector: e.Topics[0], or "0x0" when the log has no topics
TopicSelector(topics) == IF Len(topics) > 0 THEN topics[1] ELSE "0x0"

\* abiMap[address] != nil && abiMap[address][selector] != nil
HasEntryAlways(selector) == TRUE
HasEntry(selector) == selector \in abiMap

IdleWorker ==
    [pc |-> "idle", site |-> "tx", tx |-> 1, log |-> 1, entry |-> 0,
     initErr |-> "nil", seen |-> 0, args |-> "none", label |-> "seer",
     ownOk |-> TRUE, pending |-> <<>>, cont |-> "none", panicked |-> FALSE,
     localEventLabels |-> <<>>, localTxLabels |-> <<>>,
     localRawTransactions |-> <<>>]

\* make(chan error, len(protoBlocksBatch.Blocks))
ErrorChanCap == nBlocks

\* The shared slices and the channels are kept as bags: what they hold and
\* how many times, not the order in which it arrived (the order of the merged
\* slices and of the drained errors is whatever the scheduler made it).
NoItems == EmptyBag
Size(bag) == BagCardinality(bag)

RECURSIVE SeqToBag(_)
SeqToBag(s) ==
    IF s = <<>> THEN EmptyBag ELSE SetToBag({Head(s)}) (+) SeqToBag(Tail(s))

\* slice = append(slice, local...)
AppendNothing(bag, s) == bag
AppendAll(bag, s) == bag (+) SeqToBag(s)

\* a send on a buffered channel proceeds only while the buffer has room
CanSend(ch, cap) == Size(ch) < cap

\* sync.Once: the caller that finds the gate new runs f; one that finds it
\* running waits; one that finds it done returns at once
OnceCanEnterRacy(e) == onceState[e] # "done"
OnceCanEnter(e) == onceState[e] = "new"

\* if initErr != nil || entry.Abi == nil
AbiUnusable(initErr, entryAbi) == initErr # "nil" \/ entryAbi = 0

\* if len(errorMessages) > 0
HasErrors(msgs) == Size(msgs) > 0

\* seer_common.GetABI: the descriptor d on success, nil with the error on failure
GetABI(ok, d) == IF ok THEN d ELSE 0

\* receipt.Status as the node reports it (a uint64)
ReceiptStatuses == {0, 1, 2}

\* seer_common.DecodeTransactionInputDataToInterface / DecodeLogArgsToLabelData:
\* the argument map on success, a nil map with the error on failure
DecodeResult(ok) == IF ok THEN "decoded" ELSE "nil"

\* fmt.Errorf(...): the error, named by what failed and where
Err(kind, b, t, l) == [kind |-> kind, blk |-> b, tx |-> t, log |-> l]

\* an error in the channel is told from the others by the place it comes from
Sent(e) == [blk |-> e.blk, tx |-> e.tx, log |-> e.log]

W(b, r) == wk' = [wk EXCEPT ![b] = r]

(* ---- the calling goroutine ---- *)

\* the goroutine starts: an empty block goes straight to the merge
Started(b, w) ==
    IF 1 <= NumTxs(b) THEN [w EXCEPT !.pc = "txloop"]
    ELSE [w EXCEPT !.pc = "exit"]

\* semaphoreChan <- struct{}{} proceeds only while fewer than threads tokens
\* are in the channel
DecoderHasRoomAlways == TRUE
DecoderHasRoom == semaphoreChan < threads

\* for _, b := range Blocks { wg.Add(1); semaphoreChan <- struct{}{}; go func... }
DSpawn ==
    /\ dNext <= nBlocks
    /\ DecoderHasRoom
    /\ semaphoreChan' = semaphoreChan + 1
    /\ wgDecode' = wgDecode + 1
    /\ wk' = [wk EXCEPT ![dNext] = Started(dNext, wk[dNext])]
    /\ dNext' = dNext + 1
    /\ UNCHANGED <<notDec, dArgs, errorChan, decodeErr, dOnce, dOut>>

\* wg.Wait(); close(errorChan); the drain of errorChan; the two returns
DWaitReturn ==
    /\ dNext > nBlocks
    /\ ~dResult.returned
    /\ wgDecode = 0
    /\ dResult' = IF HasErrors(errorChan)
                  THEN [returned |-> TRUE, labels |-> NoItems,
                        txLabels |-> NoItems, rawTransactions |-> NoItems,
                        err |-> errorChan]
                  ELSE [returned |-> TRUE, labels |-> labels,
                        txLabels |-> txLabels,
                        rawTransactions |-> rawTransactions, err |-> NoItems]
    /\ UNCHANGED <<notDec, dArgs, dSync, errorChan, decodeErr, dOnce, wk, labels,
                   txLabels, rawTransactions>>

(* ---- the goroutine of block b ---- *)

wkOnly == <<dArgs, dSync, errorChan, decodeErr, dOnce, dOut>>

\* the per-iteration locals (label, decodedArgs, initErr, the entry looked up)
\* as they are at the top of an iteration
Fresh(w) ==
    [w EXCEPT !.entry = 0, !.initErr = "nil", !.seen = 0, !.args = "none",
              !.label = "seer", !.ownOk = TRUE, !.pending = <<>>,
              !.cont = "none", !.site = "tx"]

\* continue in the transaction loop, or leave it for the merge
NextTx(b, w) ==
    IF w.tx + 1 <= NumTxs(b)
    THEN [Fresh(w) EXCEPT !.pc = "txloop", !.tx = w.tx + 1, !.log = 1]
    ELSE [Fresh(w) EXCEPT !.pc = "exit", !.tx = w.tx + 1, !.log = 1]

\* the first log of the transaction, or the next transaction
FirstLog(b, w) ==
    IF 1 <= NumLogs(b, w.tx)
    THEN [Fresh(w) EXCEPT !.pc = "logloop", !.log = 1]
    ELSE NextTx(b, w)

\* continue in the log loop, or go on with the next transaction
NextLog(b, w) ==
    IF w.log + 1 <= NumLogs(b, w.tx)
    THEN [Fresh(w) EXCEPT !.pc = "logloop", !.log = w.log + 1]
    ELSE NextTx(b, w)

\* errorChan <- err is next; cont says where the goroutine goes on afterwards
\* (the iteration's locals are dead from here on)
Raise(w, kind, b, cont) ==
    [Fresh(w) EXCEPT !.pc = "send", !.cont = cont, !.site = w.site,
                     !.pending = Err(kind, b, w.tx,
                                     IF w.site = "log" THEN w.log ELSE 0)]

\* for _, tx := range b.Transactions: the raw transaction, the length test and
\* the abiMap lookup of (tx.ToAddress, selector)
TxBegin(b) ==
    /\ wk[b].pc = "txloop"
    /\ LET w == wk[b]
           raw == IF addRawTransactions
                  THEN Append(w.localRawTransactions, <<b, w.tx>>)
                  ELSE w.localRawTransactions
           w1 == [w EXCEPT !.localRawTransactions = raw, !.site = "tx"]
       IN IF DirectTransfer(batch[b][w.tx].Input)
          THEN \* continue: the logs of the transaction are not looked at
               W(b, NextTx(b, w1))
          ELSE IF ~HasEntry(InputSelector(batch[b][w.tx].Input))
          THEN W(b, FirstLog(b, w1))
          ELSE \E e \in Entries :
                 W(b, [w1 EXCEPT !.pc = "once", !.entry = e])
    /\ UNCHANGED <<notDec, wkOnly>>

\* for _, e := range tx.Logs: the topic selector and the abiMap lookup
LogBegin(b) ==
    /\ wk[b].pc = "logloop"
    /\ LET w == [wk[b] EXCEPT !.site = "log"]
       IN IF ~HasEntry(TopicSelector(batch[b][w.tx].Logs[w.log]))
          THEN W(b, NextLog(b, w))
          ELSE \E e \in Entries :
                 W(b, [w EXCEPT !.pc = "once", !.entry = e])
    /\ UNCHANGED <<notDec, wkOnly>>

\* the check after Once.Do; for a transaction, then hex.DecodeString(tx.Input[2:])
AfterOnce(b, w, entryAbi) ==
    IF AbiUnusable(w.initErr, entryAbi)
    THEN W(b, Raise(w, "abi", b, IF w.site = "tx" THEN "nexttx" ELSE "nextlog"))
    ELSE LET w1 == [w EXCEPT !.pc = "decode", !.seen = entryAbi]
         IN \/ W(b, w1)
            \/ /\ w.site = "tx"
               /\ W(b, Raise(w1, "hex", b, "nexttx"))

\* entry.Once.Do(...) finds the gate done (f is not called), or finds it new
\* and starts f
OnceEnter(b) ==
    /\ wk[b].pc = "once"
    /\ LET w == wk[b]
       IN \/ /\ OnceCanEnter(w.entry)
             /\ onceState' = [onceState EXCEPT ![w.entry] = "running"]
             /\ abi' = abi
             /\ W(b, [w EXCEPT !.pc = "parse"])
          \/ /\ onceState[w.entry] = "done"
             /\ UNCHANGED onceState
             /\ abi' = abi
             /\ AfterOnce(b, w, abi[w.entry])
    /\ UNCHANGED <<notDec, dArgs, dSync, errorChan, decodeErr, parseCount, dOut>>

\* entry.Abi, initErr = seer_common.GetABI(entry.AbiJSON), inside Once.Do
OnceParse(b) ==
    /\ wk[b].pc = "parse"
    /\ LET w == wk[b]
       IN \E ok \in BOOLEAN :
            LET parsed == GetABI(ok, parseCount[w.entry] + 1)
            IN /\ parseCount' = [parseCount EXCEPT ![w.entry] = @ + 1]
               /\ abi' = [abi EXCEPT ![w.entry] = parsed]
               /\ onceState' = [onceState EXCEPT ![w.entry] = "done"]
               /\ AfterOnce(b, [w EXCEPT !.initErr =
                                          IF ok THEN "nil" ELSE "err"], parsed)
    /\ UNCHANGED <<notDec, dArgs, dSync, errorChan, decodeErr, dOut>>

\* decodedArgsTx, decodeErr = DecodeTransactionInputDataToInterface(...)
\* decodedArgsLogs, decodeErr = DecodeLogArgsToLabelData(...)
Decode(b) ==
    /\ wk[b].pc = "decode"
    /\ \E ok \in BOOLEAN :
         /\ decodeErr' = IF ok THEN "nil" ELSE "err"
         /\ W(b, [wk[b] EXCEPT !.pc = "read", !.ownOk = ok,
                               !.args = DecodeResult(ok)])
    /\ UNCHANGED <<notDec, dArgs, dSync, errorChan, dOnce, dOut>>

\* if decodeErr != nil { decodedArgs = {input_raw, abi, selector, error};
\*                       label = SeerCrawlerRawLabel }
AfterDecode(w) ==
    IF decodeErr # "nil"
    THEN [w EXCEPT !.args = "raw", !.label = "seer-raw"]
    ELSE w

\* (receipt is kept with the label to tell which receipt it was built from)
TxLabel(b, w, receipt) ==
    [blk |-> b, tx |-> w.tx, log |-> 0, label |-> w.label, data |-> w.args,
     status |-> IF receipt = 1 THEN 1 ELSE 0, receipt |-> receipt]

EventLabel(b, w) ==
    [blk |-> b, tx |-> w.tx, log |-> w.log, label |-> w.label,
     data |-> w.args, status |-> 0, receipt |-> 0]

\* the test of decodeErr, TransactionReceipt, the status, json.Marshal and the
\* append to localTxLabels
TxRead(b) ==
    /\ wk[b].pc = "read"
    /\ wk[b].site = "tx"
    /\ LET w == AfterDecode(wk[b])
       IN \/ \* receipt lookup fails
             W(b, Raise(w, "receipt", b, "nexttx"))
          \/ \* receipt found
             IF w.args = "nil"
             THEN \* decodedArgsTx["status"] = ... on a nil map panics
                  W(b, Raise(w, "panic", b, "deferred"))
             ELSE \/ W(b, Raise(w, "json", b, "nexttx"))
                  \/ \E receipt \in ReceiptStatuses :
                       W(b, FirstLog(b, [w EXCEPT !.localTxLabels =
                                          Append(@, TxLabel(b, w, receipt))]))
    /\ UNCHANGED <<notDec, wkOnly>>

\* the test of decodeErr, json.Marshal and the append to localEventLabels
LogRead(b) ==
    /\ wk[b].pc = "read"
    /\ wk[b].site = "log"
    /\ LET w == AfterDecode(wk[b])
       IN \/ W(b, Raise(w, "json", b, "nextlog"))
          \/ W(b, NextLog(b, [w EXCEPT !.localEventLabels =
                                         Append(@, EventLabel(b, w))]))
    /\ UNCHANGED <<notDec, wkOnly>>

\* errorChan <- err, then continue (or, from the recover, the other defers)
SendError(b) ==
    /\ wk[b].pc = "send"
    /\ CanSend(errorChan, ErrorChanCap)
    /\ errorChan' = errorChan (+) SetToBag({Sent(wk[b].pending)})
    /\ LET w == wk[b]
       IN CASE w.cont = "nexttx" -> W(b, NextTx(b, w))
            [] w.cont = "nextlog" -> W(b, NextLog(b, w))
            [] w.cont = "deferred" ->
                 W(b, [Fresh(w) EXCEPT !.pc = "exit", !.panicked = TRUE])
    /\ UNCHANGED <<notDec, dArgs, dSync, decodeErr, dOnce, dOut>>

\* The way out of the goroutine.  Unless it panicked: labelsMutex.Lock(), the
\* three appends, labelsMutex.Unlock().  Then the deferred <-semaphoreChan.
\* (The appends touch nothing another goroutine reads before wg.Wait, so they
\* are taken together with the release that follows them.)
Exit(b) ==
    /\ wk[b].pc = "exit"
    /\ semaphoreChan > 0
    /\ IF wk[b].panicked
       THEN UNCHANGED <<labels, txLabels, rawTransactions>>
       ELSE /\ labels' = AppendAll(labels, wk[b].localEventLabels)
            /\ txLabels' = AppendAll(txLabels, wk[b].localTxLabels)
            /\ rawTransactions' =
                  AppendAll(rawTransactions, wk[b].localRawTransactions)
    /\ semaphoreChan' = semaphoreChan - 1
    /\ W(b, [wk[b] EXCEPT !.pc = "wgdone"])
    /\ UNCHANGED <<notDec, dArgs, dNext, wgDecode, errorChan, decodeErr, dOnce,
                   dResult>>

\* defer wg.Done()
WgDone(b) ==
    /\ wk[b].pc = "wgdone"
    /\ wgDecode' = wgDecode - 1
    /\ W(b, [wk[b] EXCEPT !.pc = "done"])
    /\ UNCHANGED <<notDec, dArgs, dNext, semaphoreChan, errorChan, decodeErr, dOnce,
                   dOut>>

DecWorker(b) ==
    \/ TxBegin(b) \/ LogBegin(b) \/ OnceEnter(b) \/ OnceParse(b)
    \/ Decode(b) \/ TxRead(b) \/ LogRead(b)
    \/ SendError(b) \/ Exit(b) \/ WgDone(b)

DecNext ==
    \/ DSpawn
    \/ DWaitReturn
    \/ \E b \in BlockIds : DecWorker(b)

(* ============================ FETCHER ================================= *)

IdleTask == [pc |-> "idle", outcome |-> "none", pending |-> <<>>]

\* FetchBlocksInRange before its loop: i, the blocks slice, the requests made
\* and what it returned
IdleSeq == [i |-> 0, asked |-> <<>>, blocks |-> <<>>, returned |-> FALSE,
            err |-> FALSE, ret |-> <<>>]

\* what eth_getBlockByNumber can answer with when it fails: the transport's
\* or the provider's own words, handed on as they are
RpcErrorTexts == {"context deadline exceeded"}

\* the values a goroutine can panic with
PanicValues == {"nil pointer dereference"}

\* blockNumbersRange: one entry for each number of [from, to]
blockNumbersRange == from..to

\* make(chan error, len(blockNumbersRange))
ErrChanCapUnbuffered == Cardinality({})
ErrChanCap == Cardinality(blockNumbersRange)

\* sem <- struct{}{} proceeds only while fewer than maxRequests tokens are held
SemHasRoomAlways == TRUE
SemHasRoom == sem < maxRequests

\* go func(b *big.Int) {...}(b): the goroutine works on its own copy of b
TaskBlockShared(n) == to
TaskBlock(n) == n

\* if len(collectedErrors) > 0
AnyCollectedOffByOne(errs) == Size(errs) > 1
AnyCollected(errs) == Size(errs) > 0

\* GetBlockByNumber: the error of rpcClient.CallContext is returned as it is
GetBlockError(n, text) == <<text>>

\* fmt.Errorf("panic in goroutine for block %s: %v", b.String(), r): the words
\* of the message, the block number in decimal among them
PanicError(n, r) == <<"panic in goroutine for block", ToString(n), r>>

\* for _, b := range blockNumbersRange { wg.Add(1); go func(b) {...}(b) }
FSpawn ==
    /\ fNext <= to
    /\ wgFetch' = wgFetch + 1
    /\ task' = [task EXCEPT ![fNext].pc = "acquire"]
    /\ fNext' = fNext + 1
    /\ UNCHANGED <<notFetch, fArgs, pipe, seq, sem, errChan, blocks, fResult>>

\* sem <- struct{}{}
Acquire(n) ==
    /\ task[n].pc = "acquire"
    /\ SemHasRoom
    /\ sem' = sem + 1
    /\ task' = [task EXCEPT ![n].pc = "call"]
    /\ UNCHANGED <<notFetch, fArgs, pipe, seq, fNext, wgFetch, errChan, blocks, fResult>>

\* block, getErr := c.GetBlockByNumber(ctxWithTimeout, b, true): it answers
\* with the block, fails, or panics (the deferred recover then has an error
\* to send)
Call(n) ==
    /\ task[n].pc = "call"
    /\ \/ task' = [task EXCEPT ![n] = [pc |-> "append", outcome |-> "ok",
                                        pending |-> <<>>]]
       \/ \E text \in RpcErrorTexts :
            task' = [task EXCEPT ![n] =
                        [pc |-> "send", outcome |-> "error",
                         pending |-> GetBlockError(TaskBlock(n), text)]]
       \/ \E r \in PanicValues :
            task' = [task EXCEPT ![n] =
                        [pc |-> "send", outcome |-> "panic",
                         pending |-> PanicError(TaskBlock(n), r)]]
    /\ UNCHANGED <<notFetch, fArgs, pipe, seq, fNext, sem, wgFetch, errChan, blocks, fResult>>

\* mu.Lock(); blocks = append(blocks, block); mu.Unlock()
AppendBlock(n) ==
    /\ task[n].pc = "append"
    /\ blocks' = Append(blocks, TaskBlock(n))
    /\ task' = [task EXCEPT ![n].pc = "release"]
    /\ UNCHANGED <<notFetch, fArgs, pipe, seq, fNext, sem, wgFetch, errChan, fResult>>

\* errChan <- getErr; return   and   errChan <- fmt.Errorf("panic ...")
SendErr(n) ==
    /\ task[n].pc = "send"
    /\ CanSend(errChan, ErrChanCap)
    /\ errChan' = errChan (+) SetToBag({[task |-> n, text |-> task[n].pending]})
    /\ task' = [task EXCEPT ![n].pc = "release", ![n].pending = <<>>]
    /\ UNCHANGED <<notFetch, fArgs, pipe, seq, fNext, sem, wgFetch, blocks, fResult>>

\* defer func() { <-sem }()
ReleaseSem(n) ==
    /\ task[n].pc = "release"
    /\ sem > 0
    /\ sem' = sem - 1
    /\ task' = [task EXCEPT ![n].pc = "wgdone"]
    /\ UNCHANGED <<notFetch, fArgs, pipe, seq, fNext, wgFetch, errChan, blocks, fResult>>

\* defer wg.Done()
FetchDone(n) ==
    /\ task[n].pc = "wgdone"
    /\ wgFetch' = wgFetch - 1
    /\ task' = [task EXCEPT ![n].pc = "done"]
    /\ UNCHANGED <<notFetch, fArgs, pipe, seq, fNext, sem, errChan, blocks, fResult>>

\* wg.Wait(); close(sem); close(errChan); the drain into collectedErrors;
\* the two returns
FWaitReturn ==
    /\ fNext > to
    /\ ~fResult.returned
    /\ wgFetch = 0
    /\ fResult' = IF AnyCollected(errChan)
                  THEN [returned |-> TRUE, blocks |-> <<>>, err |-> errChan]
                  ELSE [returned |-> TRUE, blocks |-> blocks, err |-> NoItems]
    /\ UNCHANGED <<notFetch, fArgs, pipe, seq, fNext, sem, wgFetch, errChan, blocks, task>>

(* ---- FetchAsProtoBlocksWithEvents, on top of the fetch ---- *)

\* ToProtoSingleBlock and ToProtoSingleTransaction, for each block of the
\* slice in the order of the slice: block n of the chain, with its one
\* transaction
ParsedBlocks(bs) ==
    [i \in 1..Len(bs) |->
        [BlockNumber |-> bs[i], Hash |-> <<"block", bs[i]>>,
         ParentHash |-> <<"block", bs[i] - 1>>, Timestamp |-> 12 * bs[i],
         Transactions |-> <<[Hash |-> <<"tx", bs[i]>>, Logs |-> <<>>]>>]]

\* what the log scan of ParseEvents can return for [from, to]: logs of the
\* transactions of the range
ScannedLogs ==
    UNION {[1..n -> [TransactionHash : {<<"tx", b>> : b \in from..to},
                     LogIndex : 0..1]] : n \in 0..MaxLogs}

\* for _, event := range events { if tx.Hash == event.TransactionHash
\* { tx.Logs = append(tx.Logs, event) } }
WithAllLogs(tx, events) == [tx EXCEPT !.Logs = @ \o events]
WithLogs(tx, events) ==
    [tx EXCEPT !.Logs = @ \o SelectSeq(events, LAMBDA e : tx.Hash = e.TransactionHash)]

\* indexer.NewBlockIndex("mantle", block.BlockNumber, block.Hash,
\* block.Timestamp, block.ParentHash, uint64(bI), "", 0), for each block in
\* the order of the slice
BlocksIndexFromOne(bs) ==
    [i \in 1..Len(bs) |->
        [BlockNumber |-> bs[i].BlockNumber, BlockHash |-> bs[i].Hash,
         BlockTimestamp |-> bs[i].Timestamp, ParentHash |-> bs[i].ParentHash,
         RowID |-> i]]
BlocksIndex(bs) ==
    [i \in 1..Len(bs) |->
        [BlockNumber |-> bs[i].BlockNumber, BlockHash |-> bs[i].Hash,
         BlockTimestamp |-> bs[i].Timestamp, ParentHash |-> bs[i].ParentHash,
         RowID |-> i - 1]]

\* ProcessBlocksToBatch: MantleBlocksBatch.Blocks holds the messages in the
\* order they are given
ProcessBlocksToBatch(msgs) == [Blocks |-> msgs]

\* i.Cmp(to) <= 0
InRangeBelowTo(i) == i < to
InRange(i) == i <= to

\* FetchBlocksInRange, one turn of its loop: GetBlockByNumber for i, whose
\* error is returned with no blocks, or after the last turn the return of
\* the blocks
FetchBlocksInRange ==
    /\ maxRequests <= 1
    /\ ~seq.returned
    /\ IF InRange(seq.i)
       THEN \/ seq' = [seq EXCEPT !.asked = Append(@, seq.i),
                                  !.blocks = Append(@, seq.i), !.i = @ + 1]
            \/ seq' = [seq EXCEPT !.asked = Append(@, seq.i), !.returned = TRUE,
                                  !.err = TRUE, !.ret = <<>>]
       ELSE seq' = [seq EXCEPT !.returned = TRUE, !.ret = seq.blocks]
    /\ UNCHANGED <<notFetch, fArgs, pipe, fNext, sem, wgFetch, errChan, blocks, task,
                   fResult>>

\* what FetchAsProtoBlocksWithEvents returns for the fetched slice bs and the
\* scanned logs (the blocksCache map it builds is handed to ParseEvents, which
\* does not read it)
ProtoResult(bs, events) ==
    LET parsed == ParsedBlocks(bs)
        blocksProto ==
            [i \in 1..Len(parsed) |->
                [parsed[i] EXCEPT !.Transactions =
                    [k \in 1..Len(@) |-> WithLogs(@[k], events)]]]
    IN [returned |-> TRUE, err |-> FALSE, events |-> events,
        blocksProto |-> blocksProto, blocksIndex |-> BlocksIndex(blocksProto)]

ProtoError == [returned |-> TRUE, err |-> TRUE, blocksProto |-> <<>>,
               blocksIndex |-> <<>>]

\* FetchAsProtoBlocksWithEvents with maxRequests > 1, from the return of
\* FetchBlocksInRangeAsync on: ParseBlocksWithTransactions hands the error on
\* or converts the blocks, ParseEvents fails or not, the loop over blocks
FetchAsProto ==
    /\ maxRequests > 1
    /\ fResult.returned
    /\ ~pipe.returned
    /\ IF fResult.err # NoItems
       THEN pipe' = ProtoError
       ELSE \/ pipe' = ProtoError          \* ParseEvents returns an error
            \/ \E events \in ScannedLogs : pipe' = ProtoResult(fResult.blocks, events)
    /\ UNCHANGED <<notFetch, fArgs, fNext, sem, wgFetch, errChan, blocks, task,
                   fResult, seq>>

\* FetchAsProtoBlocksWithEvents with maxRequests <= 1, from the return of
\* FetchBlocksInRange on
FetchAsProtoSequential ==
    /\ maxRequests <= 1
    /\ seq.returned
    /\ ~pipe.returned
    /\ IF seq.err
       THEN pipe' = ProtoError
       ELSE \/ pipe' = ProtoError          \* ParseEvents returns an error
            \/ \E events \in ScannedLogs : pipe' = ProtoResult(seq.ret, events)
    /\ UNCHANGED <<notFetch, fArgs, fNext, sem, wgFetch, errChan, blocks, task,
                   fResult, seq>>

FetchTask(n) ==
    \/ Acquire(n) \/ Call(n) \/ AppendBlock(n) \/ SendErr(n)
    \/ ReleaseSem(n) \/ FetchDone(n)

FetchNext ==
    \/ FSpawn
    \/ FWaitReturn
    \/ FetchAsProto
    \/ FetchBlocksInRange
    \/ FetchAsProtoSequential
    \/ \E n \in BlockNumbers : FetchTask(n)

(* ======================== ADAPTIVE LOG SCANNER ======================== *)
(* Client.ClientFilterLogs: one goroutine, one loop; an iteration (the     *)
(* request and what follows it up to the next request or the return) is    *)
(* one step.                                                               *)

\* the blocks of the window [lo, hi], ascending
WindowBlocks(lo, hi) == [i \in 1..(hi - lo + 1) |-> lo + i - 1]

\* the eth_getLogs providers: one that answers at will, and those that reject
\* with "query returned more than 10000 results" exactly the windows of more
\* than L blocks
Providers ==
    {[kind |-> "free", L |-> 0]} \cup {[kind |-> "limit", L |-> l] : l \in 1..MaxSpan}

\* what the provider can answer to a request for [lo, hi]: the logs, the
\* range-limit error, or another error
Answers(lo, hi) ==
    IF provider.kind = "free" THEN {"logs", "too many", "other"}
    ELSE IF hi - lo + 1 > provider.L THEN {"too many"} ELSE {"logs"}

\* nextBlock := fromBlock + batchStep, or toBlock if that exceeds it
nextBlock ==
    IF fromBlock + batchStep > q.ToBlock THEN q.ToBlock ELSE fromBlock + batchStep

\* batchStep.Div(batchStep, big.NewInt(2))
Halved(step) == step \div 2

\* fromBlock = new(big.Int).Add(nextBlock, big.NewInt(1))
AfterWindowAgain(nb) == nb
AfterWindow(nb) == nb + 1

\* the loop is left (break) once fromBlock is past toBlock: return logs, nil
Leave(fb, ls) ==
    IF fb > q.ToBlock
    THEN [returned |-> TRUE, logs |-> ls, err |-> FALSE]
    ELSE NoResult

\* an iteration whose request is answered with logs: append them, advance
FilterLogsOk ==
    /\ ~flResult.returned
    /\ "logs" \in Answers(fromBlock, nextBlock)
    /\ asked' = asked \cup {<<fromBlock, nextBlock>>}
    /\ logs' = logs \o WindowBlocks(fromBlock, nextBlock)
    /\ windows' = Append(windows, <<fromBlock, nextBlock>>)
    /\ fromBlock' = AfterWindow(nextBlock)
    /\ flResult' = Leave(fromBlock', logs')
    /\ UNCHANGED <<notScan, q, provider, batchStep, skipped>>

\* an iteration whose request is answered with the range-limit error: halve
\* the step and retry, or, with the step below one, skip the window
FilterLogsTooMany ==
    /\ ~flResult.returned
    /\ "too many" \in Answers(fromBlock, nextBlock)
    /\ asked' = asked \cup {<<fromBlock, nextBlock>>}
    /\ batchStep' = Halved(batchStep)
    /\ IF batchStep' < 1
       THEN /\ fromBlock' = AfterWindow(nextBlock)
            /\ skipped' = Append(skipped, <<fromBlock, nextBlock>>)
            /\ flResult' = Leave(fromBlock', logs)
       ELSE UNCHANGED <<fromBlock, skipped, flResult>>
    /\ UNCHANGED <<notScan, q, provider, logs, windows>>

\* an iteration whose request fails with any other error: return nil, err
FilterLogsFails ==
    /\ ~flResult.returned
    /\ "other" \in Answers(fromBlock, nextBlock)
    /\ asked' = asked \cup {<<fromBlock, nextBlock>>}
    /\ flResult' = [returned |-> TRUE, logs |-> <<>>, err |-> TRUE]
    /\ UNCHANGED <<notScan, q, provider, fromBlock, batchStep, logs, windows,
                   skipped>>

ScanNext == FilterLogsOk \/ FilterLogsTooMany \/ FilterLogsFails

(* ============================ TABLE NAMES ============================= *)
(* indexer/db.go: the functions that turn a chain name into a table name.  *)

\* the switch of BlocksTableName, case by case
BlocksTableWithSlip ==
    [arbitrum_one |-> "arbitrum_one_blocks",
     arbitrum_sepolia |-> "arbitrum_sepolia_blocks",
     b3 |-> "b3_blocks",
     b3_sepolia |-> "b3_blocks",
     ethereum |-> "ethereum_blocks",
     game7 |-> "game7_blocks",
     game7_orbit_arbitrum_sepolia |-> "game7_orbit_arbitrum_sepolia_blocks",
     game7_testnet |-> "game7_testnet_blocks",
     imx_zkevm |-> "imx_zkevm_blocks",
     imx_zkevm_sepolia |-> "imx_zkevm_sepolia_blocks",
     mantle |-> "mantle_blocks",
     mantle_sepolia |-> "mantle_sepolia_blocks",
     polygon |-> "polygon_blocks",
     ronin |-> "ronin_blocks",
     ronin_saigon |-> "ronin_saigon_blocks",
     sepolia |-> "sepolia_blocks",
     xai |-> "xai_blocks",
     xai_sepolia |-> "xai_sepolia_blocks"]
BlocksTable ==
    [arbitrum_one |-> "arbitrum_one_blocks",
     arbitrum_sepolia |-> "arbitrum_sepolia_blocks",
     b3 |-> "b3_blocks",
     b3_sepolia |-> "b3_sepolia_blocks",
     ethereum |-> "ethereum_blocks",
     game7 |-> "game7_blocks",
     game7_orbit_arbitrum_sepolia |-> "game7_orbit_arbitrum_sepolia_blocks",
     game7_testnet |-> "game7_testnet_blocks",
     imx_zkevm |-> "imx_zkevm_blocks",
     imx_zkevm_sepolia |-> "imx_zkevm_sepolia_blocks",
     mantle |-> "mantle_blocks",
     mantle_sepolia |-> "mantle_sepolia_blocks",
     polygon |-> "polygon_blocks",
     ronin |-> "ronin_blocks",
     ronin_saigon |-> "ronin_saigon_blocks",
     sepolia |-> "sepolia_blocks",
     xai |-> "xai_blocks",
     xai_sepolia |-> "xai_sepolia_blocks"]

\* the switch of TransactionsTableName, case by case
TransactionsTable ==
    [arbitrum_one |-> "arbitrum_one_transactions",
     arbitrum_sepolia |-> "arbitrum_sepolia_transactions",
     b3 |-> "b3_transactions",
     b3_sepolia |-> "b3_sepolia_transactions",
     ethereum |-> "ethereum_transactions",
     game7 |-> "game7_transactions",
     game7_orbit_arbitrum_sepolia |-> "game7_orbit_arbitrum_sepolia_transactions",
     game7_testnet |-> "game7_testnet_transactions",
     imx_zkevm |-> "imx_zkevm_transactions",
     imx_zkevm_sepolia |-> "imx_zkevm_sepolia_transactions",
     mantle |-> "mantle_transactions",
     mantle_sepolia |-> "mantle_sepolia_transactions",
     polygon |-> "polygon_transactions",
     ronin |-> "ronin_transactions",
     ronin_saigon |-> "ronin_saigon_transactions",
     sepolia |-> "sepolia_transactions",
     xai |-> "xai_transactions",
     xai_sepolia |-> "xai_sepolia_transactions"]

\* the result of a switch: the case's string and nil, or the default's
\* "", fmt.Errorf("Unsupported blockchain")
SwitchOn(cases, blockchain) ==
    IF blockchain \in DOMAIN cases
    THEN [name |-> cases[blockchain], err |-> FALSE]
    ELSE [name |-> "", err |-> TRUE]

BlocksTableName(blockchain) == SwitchOn(BlocksTable, blockchain)
TransactionsTableName(blockchain) == SwitchOn(TransactionsTable, blockchain)

\* fmt.Sprintf(blockchain + "_labels"): any name gets a table name, no error
LabelsTableName(blockchain) == [name |-> blockchain \o "_labels", err |-> FALSE]

\* fmt.Sprintf(blockchain + "_transactions")
CustomerDBTransactionsTableName(blockchain) ==
    [name |-> blockchain \o "_transactions", err |-> FALSE]

\* chain names a caller can pass: the ones of the crawler's command line, and
\* names it does not know (another chain, another spelling, a table name)
KnownChains ==
    {"arbitrum_one", "arbitrum_sepolia", "b3", "b3_sepolia", "ethereum",
     "game7", "game7_orbit_arbitrum_sepolia", "game7_testnet", "imx_zkevm",
     "imx_zkevm_sepolia", "mantle", "mantle_sepolia", "polygon", "ronin",
     "ronin_saigon", "sepolia", "xai", "xai_sepolia"}
OtherChains == {"dogecoin", "Ethereum", "ethereum_blocks", ""}
ChainNames == KnownChains \cup OtherChains

TableNameFunctions ==
    {"BlocksTableName", "TransactionsTableName", "LabelsTableName",
     "CustomerDBTransactionsTableName"}

TableName(fn, blockchain) ==
    CASE fn = "BlocksTableName" -> BlocksTableName(blockchain)
      [] fn = "TransactionsTableName" -> TransactionsTableName(blockchain)
      [] fn = "LabelsTableName" -> LabelsTableName(blockchain)
      [] fn = "CustomerDBTransactionsTableName" ->
            CustomerDBTransactionsTableName(blockchain)

\* a caller resolves a table name; the call and its result are kept
Resolve ==
    /\ Len(lookups) < MaxLookups
    /\ \E fn \in TableNameFunctions, c \in ChainNames :
         lookups' = Append(lookups, [fn |-> fn, blockchain |-> c,
                                     result |-> TableName(fn, c)])
    /\ UNCHANGED notNames

NamesNext == Resolve

(* ========================== DATABASE WRITES =========================== *)
(* PostgreSQLpgx.WriteIndexes and PostgreSQLpgx.WriteDataToCustomerDB: one *)
(* call at a time on a connection; a step is one statement sent to the     *)
(* database (or the validation that returns before it) or the deferred     *)
(* function that ends the transaction.                                     *)

\* the chains the calls are made for: two of the switch, of which one with an
\* L1 chain, and one that is not in it
DbChains == {"ethereum", "xai", "dogecoin"}

\* the cases of the switch of IsBlockchainWithL1Chain that return true
L1Chains ==
    {"arbitrum_one", "arbitrum_sepolia", "game7_orbit_arbitrum_sepolia",
     "game7_testnet", "game7", "xai", "xai_sepolia"}

IsBlockchainWithL1ChainButOne(blockchain) == blockchain \in L1Chains \ {"game7_testnet"}
IsBlockchainWithL1Chain(blockchain) == blockchain \in L1Chains

\* columns of the bulk insert of fn for a chain: those of its columns slice,
\* and l1_block_number appended if isBlockchainWithL1Chain
Columns(fn, blockchain) ==
    LET base ==
          CASE fn = "writeBlockIndexToDB" ->
                 <<"block_number", "block_hash", "block_timestamp", "parent_hash",
                   "row_id", "path", "transactions_indexed_at", "logs_indexed_at">>
            [] fn = "WriteEvents" ->
                 <<"id", "label", "transaction_hash", "log_index", "block_number",
                   "block_hash", "block_timestamp", "caller_address",
                   "origin_address", "address", "label_name", "label_type",
                   "label_data">>
            [] fn = "WriteTransactions" ->
                 <<"id", "address", "block_number", "block_hash", "caller_address",
                   "label_name", "label_type", "origin_address", "label",
                   "transaction_hash", "label_data", "block_timestamp">>
            [] fn = "WriteRawTransactions" ->
                 <<"hash", "block_hash", "block_timestamp", "block_number",
                   "from_address", "to_address", "gas", "gas_price", "input",
                   "nonce", "max_fee_per_gas", "max_priority_fee_per_gas",
                   "transaction_index", "transaction_type", "value">>
    IN IF fn \in {"writeBlockIndexToDB", "WriteRawTransactions"}
          /\ IsBlockchainWithL1Chain(blockchain)
       THEN Append(base, "l1_block_number")
       ELSE base

\* the tables the schema creates: for each chain of the switch its blocks,
\* labels and transactions table
ExistingTables ==
    UNION {{BlocksTable[c], c \o "_labels", c \o "_transactions"} : c \in KnownChains}

\* records of a call: 1..MaxKeys are well-formed records told apart by their
\* natural key; 0 is a record the writer cannot convert (an address that is not
\* hex for a label, a numeric field that is not hex for a raw transaction)
GoodRecords == 1..MaxKeys
Records == 0..MaxKeys

\* a row: its table, its natural key, and whether the running call wrote it
\* ("new": its id from uuid.New(), its timestamps from now()) or an earlier one
Row(table, key) == [table |-> table, key |-> key, by |-> "new"]

\* the rows as a later call finds them
Earlier(rows) == {[r EXCEPT !.by = "old"] : r \in rows}

\* the unique keys of the schema: block_number for blocks, the natural key
\* for labels, hash for transactions
SameKey(a, b) == a.table = b.table /\ a.key = b.key

\* ON CONFLICT ... DO NOTHING: the row in the table stays as it is
OnConflictUpdate(existing, new) == new
OnConflict(existing, new) == existing

\* INSERT INTO t (...) SELECT * FROM unnest(...) ON CONFLICT ... DO NOTHING
InsertRows(rows, new) ==
    {IF \E n \in new : SameKey(r, n)
     THEN OnConflict(r, CHOOSE n \in new : SameKey(r, n))
     ELSE r : r \in rows}
    \cup {n \in new : ~\E r \in rows : SameKey(r, n)}

\* how tx.Exec can end: a table that does not exist is an error
ExecOutcomes(table) ==
    IF table \in ExistingTables /\ txn.state = "open" THEN {"ok", "error"}
    ELSE {"error"}

\* how tx.Commit can end: the commit of a transaction a statement failed in
\* is answered with a rollback, which pgx reports as an error
CommitOutcomes == IF txn.state = "open" THEN {"ok", "error"} ELSE {"error"}

NoTxn == [state |-> "none", rows |-> {}]

IdleCall ==
    [op |-> "none", pc |-> "idle", blockchain |-> "", blocksIndexPack |-> {},
     txCalls |-> {}, events |-> {}, rawTransactions |-> {}, err |-> "nil",
     ret |-> "none", end |-> "none", failedIn |-> "none", sent |-> {},
     repeat |-> FALSE, prevOk |-> FALSE]

Args(c) == [blockchain |-> c.blockchain, op |-> c.op,
            blocksIndexPack |-> c.blocksIndexPack, txCalls |-> c.txCalls,
            events |-> c.events, rawTransactions |-> c.rawTransactions]

\* a call starts: pool.Acquire and conn.Begin succeed, or the call returns
\* their error.  The calls of one run are for one chain (the process is
\* started for a chain); the tables of different chains share nothing
Begin(op, chain, pack, txs, evs, raws) ==
    /\ wcall.pc \in {"idle", "done"}
    /\ wcall.op = "none" \/ chain = wcall.blockchain
    /\ db' = Earlier(db)
    /\ LET c == [IdleCall EXCEPT !.op = op, !.blockchain = chain,
                                 !.blocksIndexPack = pack, !.txCalls = txs,
                                 !.events = evs, !.rawTransactions = raws]
           c1 == [c EXCEPT !.repeat = (wcall.pc = "done" /\ Args(wcall) = Args(c)),
                           !.prevOk = (wcall.end = "committed")]
       IN \/ /\ txn' = [state |-> "open", rows |-> Earlier(db)]
             /\ wcall' = [c1 EXCEPT !.pc = "begun"]
          \/ /\ txn' = NoTxn
             /\ wcall' = [c1 EXCEPT !.pc = "done", !.ret = "err"]
    /\ UNCHANGED notDb

\* the INSERT statement fn builds for the call's chain
Statement(fn, table) ==
    [fn |-> fn, table |-> table, columns |-> Columns(fn, wcall.blockchain)]

\* tx.Exec of the bulk insert of rows into table, inside fn: the rows go into
\* the transaction, or the statement fails and the transaction is aborted
Exec(fn, table, rows, okCall, errCall) ==
    \E o \in ExecOutcomes(table) :
        IF o = "ok"
        THEN /\ txn' = [txn EXCEPT !.rows = InsertRows(txn.rows, rows)]
             /\ wcall' = [okCall EXCEPT !.sent = @ \cup {Statement(fn, table)}]
        ELSE /\ txn' = [txn EXCEPT !.state = "aborted"]
             /\ wcall' = [errCall EXCEPT !.sent = @ \cup {Statement(fn, table)},
                                         !.failedIn = fn]

(* ---- WriteIndexes ---- *)

WriteIndexesBegin ==
    \E chain \in DbChains, pack \in SUBSET GoodRecords :
        Begin("WriteIndexes", chain, pack, {}, {}, {})

\* if len(blocksIndexPack) > 0 { err = p.writeBlockIndexToDB(...) }: the
\* function's err variable is assigned, and the error returned
WriteBlockIndexToDB ==
    /\ wcall.op = "WriteIndexes" /\ wcall.pc = "begun"
    /\ LET t == BlocksTableName(wcall.blockchain)
           ok == [wcall EXCEPT !.pc = "defer", !.ret = "nil"]
           bad == [wcall EXCEPT !.pc = "defer", !.ret = "err", !.err = "err"]
       IN IF wcall.blocksIndexPack = {}
          THEN wcall' = ok /\ UNCHANGED txn
          ELSE IF t.err
          THEN wcall' = [bad EXCEPT !.failedIn = "BlocksTableName"] /\ UNCHANGED txn
          ELSE Exec("writeBlockIndexToDB", t.name,
                    {Row(t.name, k) : k \in wcall.blocksIndexPack}, ok, bad)
    /\ UNCHANGED <<notDb, db>>

\* the deferred function of WriteIndexes: Rollback if err is set, else
\* err = tx.Commit(ctx), which no longer reaches the value returned
WriteIndexesDeferred ==
    /\ wcall.op = "WriteIndexes" /\ wcall.pc = "defer"
    /\ IF wcall.err # "nil"
       THEN /\ wcall' = [wcall EXCEPT !.pc = "done", !.end = "rolledback"]
            /\ UNCHANGED db
       ELSE \E o \in CommitOutcomes :
              IF o = "ok"
              THEN /\ db' = txn.rows
                   /\ wcall' = [wcall EXCEPT !.pc = "done", !.end = "committed"]
              ELSE /\ UNCHANGED db
                   /\ wcall' = [wcall EXCEPT !.pc = "done", !.end = "rolledback",
                                             !.err = "err", !.failedIn = "Commit"]
    /\ txn' = NoTxn
    /\ UNCHANGED notDb

(* ---- WriteDataToCustomerDB ---- *)

WriteDataToCustomerDBBegin ==
    \E chain \in DbChains, txs \in SUBSET Records, evs \in SUBSET Records,
       raws \in SUBSET Records :
        Begin("WriteDataToCustomerDB", chain, {}, txs, evs, raws)

\* the labels the writer sends: a record whose address does not decode is
\* left out (continue)
LabelRows(table, kind, recs) == {Row(table, <<kind, k>>) : k \in recs \ {0}}

\* if len(txCalls) > 0 { err := p.WriteTransactions(...); if err != nil
\* { return err } }: the err of the if block, not the function's
WriteTransactions ==
    /\ wcall.op = "WriteDataToCustomerDB" /\ wcall.pc = "begun"
    /\ LET t == LabelsTableName(wcall.blockchain).name
       IN IF wcall.txCalls = {}
          THEN wcall' = [wcall EXCEPT !.pc = "events"] /\ UNCHANGED txn
          ELSE Exec("WriteTransactions", t, LabelRows(t, "tx_call", wcall.txCalls),
                    [wcall EXCEPT !.pc = "events"],
                    [wcall EXCEPT !.pc = "defer", !.ret = "err"])
    /\ UNCHANGED <<notDb, db>>

\* if len(events) > 0 { err := p.WriteEvents(...); ... }
WriteEvents ==
    /\ wcall.op = "WriteDataToCustomerDB" /\ wcall.pc = "events"
    /\ LET t == LabelsTableName(wcall.blockchain).name
       IN IF wcall.events = {}
          THEN wcall' = [wcall EXCEPT !.pc = "raw"] /\ UNCHANGED txn
          ELSE Exec("WriteEvents", t, LabelRows(t, "event", wcall.events),
                    [wcall EXCEPT !.pc = "raw"],
                    [wcall EXCEPT !.pc = "defer", !.ret = "err"])
    /\ UNCHANGED <<notDb, db>>

\* if len(rawTransactions) > 0 { err := p.WriteRawTransactions(...); ... };
\* return err.  WriteRawTransactions returns the error of a field it cannot
\* parse before it sends anything
WriteRawTransactions ==
    /\ wcall.op = "WriteDataToCustomerDB" /\ wcall.pc = "raw"
    /\ LET t == CustomerDBTransactionsTableName(wcall.blockchain).name
           ok == [wcall EXCEPT !.pc = "defer", !.ret = wcall.err]
           bad == [wcall EXCEPT !.pc = "defer", !.ret = "err"]
       IN IF wcall.rawTransactions = {}
          THEN wcall' = ok /\ UNCHANGED txn
          ELSE IF 0 \in wcall.rawTransactions
          THEN /\ wcall' = [bad EXCEPT !.failedIn = "WriteRawTransactions"]
               /\ UNCHANGED txn
          ELSE Exec("WriteRawTransactions", t,
                    {Row(t, k) : k \in wcall.rawTransactions}, ok, bad)
    /\ UNCHANGED <<notDb, db>>

\* the deferred function of WriteDataToCustomerDB: Rollback if the function's
\* err is set, else Commit, and panic(err) if the commit fails
WriteDataDeferred ==
    /\ wcall.op = "WriteDataToCustomerDB" /\ wcall.pc = "defer"
    /\ IF wcall.err # "nil"
       THEN /\ wcall' = [wcall EXCEPT !.pc = "done", !.end = "rolledback"]
            /\ UNCHANGED db
       ELSE \E o \in CommitOutcomes :
              IF o = "ok"
              THEN /\ db' = txn.rows
                   /\ wcall' = [wcall EXCEPT !.pc = "done", !.end = "committed"]
              ELSE /\ UNCHANGED db
                   /\ wcall' = [wcall EXCEPT !.pc = "done", !.end = "rolledback",
                                  !.err = "err", !.ret = "panic",
                                  !.failedIn = IF @ = "none" THEN "Commit" ELSE @]
    /\ txn' = NoTxn
    /\ UNCHANGED notDb

DbNext ==
    \/ WriteIndexesBegin \/ WriteBlockIndexToDB \/ WriteIndexesDeferred
    \/ WriteDataToCustomerDBBegin \/ WriteTransactions \/ WriteEvents
    \/ WriteRawTransactions \/ WriteDataDeferred

(* ============================== ABI JOBS ============================== *)
(* The table abi_jobs and the operations of PostgreSQLpgx on it.  A step   *)
(* is one call; the statements of a call are applied as the call applies   *)
(* them, with each of them free to fail.                                   *)

JobChains == {"ethereum", "xai"}

\* the selector go-ethereum derives for [abi]: the topic of the event, the
\* four bytes of the method, and 0x when the name is not a method of the ABI
Selector(abiType) ==
    CASE abiType = "event" -> "0xddf252ad1be2c89b"
      [] abiType = "function" -> "0xa9059cbb"
      [] OTHER -> "0x"

\* (abi::jsonb)->>'type' of a stored ABI; the stored text "broken" stands for
\* an entry of type function that abi.JSON does not accept
AbiType(text) == IF text = "broken" THEN "function" ELSE text
Parses(text) == text # "broken"

\* '[' || abi || ']' as abi, the text ReadABIJobs and SelectAbiJobs return
Wrapped(text) == "[" \o text \o "]"

\* the jobs other programs have put into the table: deployment_block_number
\* is {} for NULL and {n} for n
ExternalJobs ==
    [chain : JobChains, customer : {"c1"}, abi : {"function", "broken"},
     abiSelector : {Selector("function"), "0x00000000"},
     status : {"active", "true"}, historical_crawl_status : {"pending"},
     progress : {0}, moonworm_task_pickedup : {FALSE},
     deployment_block_number : {{}, {1}}]

IdleJobsCall ==
    [op |-> "none", chain |-> "", ids |-> {}, process |-> 0, ret |-> "none",
     abiJobs |-> <<>>, dest |-> "", WriteToDB |-> FALSE, processed |-> {},
     updated |-> {}, n |-> 0, nextId |-> 0, end |-> "none"]

\* the record of the call that was made
Called(op, fields) ==
    [f \in DOMAIN IdleJobsCall |->
        IF f \in DOMAIN fields THEN fields[f]
        ELSE IF f = "op" THEN op
        ELSE IF f = "n" THEN jcall.n + 1
        ELSE IF f = "nextId" THEN jcall.nextId
        ELSE IdleJobsCall[f]]

\* UPDATE abi_jobs SET ... WHERE <where>: the rows of the table after it
Update(matching, new) ==
    [id \in DOMAIN jobs |-> IF id \in matching THEN new[id] ELSE jobs[id]]

\* the ids the callers pass: the ids of stored jobs, and 0 for a text that is
\* not a UUID
IdArgs == SUBSET (0..2)

\* WHERE chain = @chain AND historical_crawl_status = 'pending' AND
\* status = 'active' AND deployment_block_number IS NOT NULL
ToPickUpAnyBlock(j, blockchain) ==
    /\ j.chain = blockchain
    /\ j.historical_crawl_status = "pending"
    /\ j.status = "active"
ToPickUp(j, blockchain) ==
    /\ j.chain = blockchain
    /\ j.historical_crawl_status = "pending"
    /\ j.status = "active"
    /\ j.deployment_block_number # {}

\* UPDATE abi_jobs SET historical_crawl_status = 'in_progress',
\* moonworm_task_pickedup = true WHERE ...
UpdateAbiJobsStatus ==
    /\ jcall.n < MaxOps
    /\ \E blockchain \in JobChains, ok \in BOOLEAN :
         LET where == {id \in DOMAIN jobs : ToPickUp(jobs[id], blockchain)}
             set == [id \in DOMAIN jobs |->
                        [jobs[id] EXCEPT !.historical_crawl_status = "in_progress",
                                         !.moonworm_task_pickedup = TRUE]]
         IN /\ jobs' = IF ok THEN Update(where, set) ELSE jobs
            /\ jcall' = Called("UpdateAbiJobsStatus",
                               [chain |-> blockchain,
                                ret |-> IF ok THEN "nil" ELSE "err"])
    /\ UNCHANGED notJobs

\* UPDATE abi_jobs SET progress=$1 WHERE id=ANY($2), after uuid.Parse of
\* every id
UpdateAbisProgress ==
    /\ jcall.n < MaxOps
    /\ \E ids \in IdArgs, process \in {50, 150}, exec \in BOOLEAN :
         LET ok == 0 \notin ids /\ exec
             where == DOMAIN jobs \cap ids
             set == [id \in DOMAIN jobs |-> [jobs[id] EXCEPT !.progress = process]]
         IN /\ jobs' = IF ok THEN Update(where, set) ELSE jobs
            /\ jcall' = Called("UpdateAbisProgress",
                               [ids |-> ids, process |-> process,
                                ret |-> IF ok THEN "nil" ELSE "err"])
    /\ UNCHANGED notJobs

\* UPDATE abi_jobs SET historical_crawl_status = 'done', progress = 100
\* WHERE id = ANY($1)
UpdateAbisAsDone ==
    /\ jcall.n < MaxOps
    /\ \E ids \in IdArgs, ok \in BOOLEAN :
         LET where == DOMAIN jobs \cap ids
             set == [id \in DOMAIN jobs |->
                        [jobs[id] EXCEPT !.historical_crawl_status = "done",
                                         !.progress = 100]]
         IN /\ jobs' = IF ok THEN Update(where, set) ELSE jobs
            /\ jcall' = Called("UpdateAbisAsDone",
                               [ids |-> ids, ret |-> IF ok THEN "nil" ELSE "err"])
    /\ UNCHANGED notJobs

\* UPDATE abi_jobs SET deployment_block_number=$1 WHERE id=ANY($2), after
\* uuid.Parse of every id
UpdateAbiJobsDeployBlock ==
    /\ jcall.n < MaxOps
    /\ \E ids \in IdArgs, blockNumber \in {2}, exec \in BOOLEAN :
         LET ok == 0 \notin ids /\ exec
             where == DOMAIN jobs \cap ids
             set == [id \in DOMAIN jobs |->
                        [jobs[id] EXCEPT !.deployment_block_number = {blockNumber}]]
         IN /\ jobs' = IF ok THEN Update(where, set) ELSE jobs
            /\ jcall' = Called("UpdateAbiJobsDeployBlock",
                               [ids |-> ids, ret |-> IF ok THEN "nil" ELSE "err"])
    /\ UNCHANGED notJobs

\* DELETE FROM abi_jobs WHERE id = ANY(@jobIds); nothing is sent for no ids
DeleteJobs ==
    /\ jcall.n < MaxOps
    /\ \E jobIds \in IdArgs, exec \in BOOLEAN :
         LET ok == jobIds = {} \/ exec
         IN /\ jobs' = IF ok THEN [id \in DOMAIN jobs \ jobIds |-> jobs[id]] ELSE jobs
            /\ jcall' = Called("DeleteJobs",
                               [ids |-> jobIds, ret |-> IF ok THEN "nil" ELSE "err"])
    /\ UNCHANGED notJobs

\* the rows of the table with the rows of new added under ids from first on
Inserted(new, first) ==
    [id \in DOMAIN jobs \cup {first + i - 1 : i \in 1..Len(new)} |->
        IF id \in DOMAIN jobs THEN jobs[id] ELSE new[id - first + 1]]

\* CreateJobsFromAbi: one INSERT per entry of the file of type event or
\* function, with the selector derived from it; the other entries are passed
\* over, as are all when the address does not decode; a failed INSERT
\* returns and leaves the rows inserted before it
CreateJobsFromAbi ==
    /\ jcall.n < MaxOps
    /\ \E chain \in JobChains, file \in {<<>>, <<"event">>, <<"function">>, <<"constructor">>}, addressOk \in BOOLEAN :
         LET job(t) == [chain |-> chain, customer |-> "c1", abi |-> t,
                        abiSelector |-> Selector(t), status |-> "true",
                        historical_crawl_status |-> "pending", progress |-> 0,
                        moonworm_task_pickedup |-> FALSE,
                        deployment_block_number |-> {1}]
             sent == IF addressOk
                     THEN SelectSeq(file, LAMBDA t : t \in {"event", "function"})
                     ELSE <<>>
         IN \E done \in 0..Len(sent) :
              /\ jcall.nextId + done <= MaxJobIds
              /\ jobs' = Inserted([i \in 1..done |-> job(sent[i])], jcall.nextId + 1)
              /\ jcall' = Called("CreateJobsFromAbi",
                                 [chain |-> chain, nextId |-> jcall.nextId + done,
                                  ret |-> IF done = Len(sent) THEN "nil" ELSE "err"])
    /\ UNCHANGED notJobs

\* len(abiJob.Abi) <= 2 || abiJob.Abi[0] != '[' || abiJob.Abi[len-1] != ']'
IncorrectFormatBelowTwo(text) ==
    Len(text) < 2 \/ SubSeq(text, 1, 1) # "[" \/ SubSeq(text, Len(text), Len(text)) # "]"
IncorrectFormat(text) ==
    Len(text) <= 2 \/ SubSeq(text, 1, 1) # "[" \/ SubSeq(text, Len(text), Len(text)) # "]"

\* the row inserted for an entry: abiJob.Abi[1 : len-1] as abi, "true",
\* "pending", 0, false, and no deployment block
CopyOf(a, destCustomerId) ==
    [chain |-> a.Chain, customer |-> destCustomerId,
     abi |-> SubSeq(a.Abi, 2, Len(a.Abi) - 1), abiSelector |-> a.AbiSelector,
     status |-> "true", historical_crawl_status |-> "pending", progress |-> 0,
     moonworm_task_pickedup |-> FALSE, deployment_block_number |-> {}]

\* the AbiJob values a caller can hold: jobs read from the table, with as
\* Abi the text as read, the stored text without the brackets, or the
\* brackets alone
AbiJobValues ==
    {[ID |-> id, Chain |-> jobs[id].chain, AbiSelector |-> jobs[id].abiSelector,
      Abi |-> text] : id \in DOMAIN jobs,
                      text \in UNION {{Wrapped(jobs[i].abi), jobs[i].abi, "[]"} : i \in DOMAIN jobs}}

\* CopyAbiJobs: Begin, Prepare, one Exec per entry of correct format, Commit;
\* the deferred Rollback undoes everything unless the commit succeeded.  Each
\* failure returns its error, but for if prepErr != nil { return err }, which
\* returns the err of Begin: nil
CopyAbiJobs ==
    /\ jcall.n < MaxOps
    /\ \E abiJobs \in UNION {[1..n -> AbiJobValues] : n \in 0..MaxCopy},
          outcome \in {"committed", "begin", "prepare", "exec", "commit"} :
         LET new == SelectSeq(abiJobs, LAMBDA a : ~IncorrectFormat(a.Abi))
             rows == [i \in 1..Len(new) |-> CopyOf(new[i], "c2")]
         IN /\ outcome = "exec" => Len(new) > 0
            /\ jcall.nextId + Len(new) <= MaxJobIds
            /\ jobs' = IF outcome = "committed"
                       THEN Inserted(rows, jcall.nextId + 1) ELSE jobs
            /\ jcall' = Called("CopyAbiJobs",
                               [abiJobs |-> abiJobs, dest |-> "c2",
                                nextId |-> jcall.nextId + Len(new),
                                end |-> outcome,
                                ret |-> IF outcome \in {"committed", "prepare"}
                                        THEN "nil" ELSE "err"])
    /\ UNCHANGED notJobs

\* ReadABIJobs(blockchain), then FilterABIJobs if ids are given: the ids of
\* the jobs EnsureCorrectSelectors goes through
Processed(blockchain, ids) ==
    {id \in DOMAIN jobs :
        /\ jobs[id].chain = blockchain
        /\ ids # {} => id \in ids}

\* EnsureCorrectSelectors: for every job read, derive the selector (an ABI
\* that does not parse returns the error) and, where it differs and WriteToDB,
\* UPDATE abi_jobs SET abi_selector; an UPDATE that fails is logged and the
\* loop goes on.  With an output file the writer of the function is nil
\* (the one opened is local to its if block): the first use of it panics
EnsureCorrectSelectors ==
    /\ jcall.n < MaxOps
    /\ \E blockchain \in JobChains, WriteToDB \in BOOLEAN, ids \in IdArgs,
          outputFilePath \in {"", "selectors.txt"}, read \in BOOLEAN :
         LET processed == IF read THEN Processed(blockchain, ids) ELSE {}
             wrong == {id \in processed :
                          /\ Parses(jobs[id].abi)
                          /\ jobs[id].abiSelector # Selector(AbiType(jobs[id].abi))}
             stops == outputFilePath # "" \/ \E id \in processed : ~Parses(jobs[id].abi)
             set(j) == [j EXCEPT !.abiSelector = Selector(AbiType(j.abi))]
         IN \E updated \in SUBSET wrong :
              /\ ~WriteToDB => updated = {}
              /\ outputFilePath # "" => Cardinality(updated) <= 1
              /\ jobs' = [id \in DOMAIN jobs |->
                            IF id \in updated THEN set(jobs[id]) ELSE jobs[id]]
              /\ jcall' = Called("EnsureCorrectSelectors",
                                 [chain |-> blockchain, ids |-> ids,
                                  WriteToDB |-> WriteToDB,
                                  processed |-> processed, updated |-> updated,
                                  ret |-> IF ~read THEN "err"
                                          ELSE IF outputFilePath # "" THEN "panic"
                                          ELSE IF \E id \in processed : ~Parses(jobs[id].abi)
                                          THEN "err" ELSE "nil"])
    /\ UNCHANGED notJobs

JobsNext ==
    \/ UpdateAbiJobsStatus \/ UpdateAbisProgress \/ UpdateAbisAsDone
    \/ UpdateAbiJobsDeployBlock \/ DeleteJobs \/ CreateJobsFromAbi
    \/ CopyAbiJobs \/ EnsureCorrectSelectors

(* ============================ READ UPDATES ============================ *)
(* PostgreSQLpgx.ReadUpdates: one query over the block index of the chain  *)
(* and the ABI jobs.                                                       *)

\* the block indexes a chain's table can hold: at most one row for a block
\* number, each with the path of the batch it was written with
IndexTables ==
    {t \in SUBSET [block_number : 0..MaxIndexBlock, path : {"a", "b"}] :
        \A r, s \in t : r.block_number = s.block_number => r = s}

\* ORDER BY block_number DESC LIMIT 1
OrderAscLimit1(rows) ==
    {r \in rows : \A s \in rows : s.block_number >= r.block_number}
OrderDescLimit1(rows) ==
    {r \in rows : \A s \in rows : s.block_number <= r.block_number}

\* the row the query of ReadUpdates gives, if it gives one: the CTE path
\* (the rows of the window), latest_block_of_path, and the jobs of the chain
\* by customer
UpdatesQuery(from_block, blockchain, minBlocksToSync) ==
    LET path == {r \in index : /\ r.block_number >= from_block
                               /\ r.block_number <= from_block + minBlocksToSync}
        latest_block_of_path ==
            OrderDescLimit1({r \in index :
                \E p \in OrderDescLimit1(path) : r.path = p.path})
    IN {[latest_block_number |-> l.block_number,
         paths |-> {r.path : r \in path},
         jobs |-> {jobs[id].customer : id \in {i \in DOMAIN jobs :
                                                jobs[i].chain = blockchain}}] :
           l \in latest_block_of_path}

NoUpdates ==
    [called |-> FALSE, blockchain |-> "", fromBlock |-> 0, minBlocksToSync |-> 0,
     firstBlockNumber |-> 0, lastBlockNumber |-> 0, paths |-> {},
     customerUpdates |-> {}, err |-> FALSE]

\* ReadUpdates: the error of Acquire, of BlocksTableName or of the query with
\* zeros, else the scanned row, or zeros when the query gives no row;
\* firstBlockNumber is never assigned
ReadUpdates ==
    /\ \E blockchain \in {"ethereum", "dogecoin"}, from_block \in 0..MaxIndexBlock,
          minBlocksToSync \in 0..MaxMinBlocks, ok \in BOOLEAN :
         LET call == [NoUpdates EXCEPT !.called = TRUE, !.blockchain = blockchain,
                                       !.fromBlock = from_block,
                                       !.minBlocksToSync = minBlocksToSync]
             rows == UpdatesQuery(from_block, blockchain, minBlocksToSync)
         IN updates' =
              IF ~ok \/ BlocksTableName(blockchain).err
              THEN [call EXCEPT !.err = TRUE]
              ELSE IF rows = {} THEN call
              ELSE LET row == CHOOSE r \in rows : TRUE
                   IN [call EXCEPT !.lastBlockNumber = row.latest_block_number,
                                   !.paths = row.paths,
                                   !.customerUpdates = row.jobs]
    /\ UNCHANGED <<notUpdates, index, bounds>>


(* ---- RetrievePathsAndBlockBounds ---- *)

\* a uint64, as four limbs of 16 bits, the least significant first (the
\* values 2^64 - d that a wrapped subtraction gives are kept exactly)
LimbBase == 2^16

\* the uint64 of a small natural number
U64(n) == <<n % LimbBase, n \div LimbBase, 0, 0>>

\* uint64(i) of an int: a negative int gives its two's complement
Uint64OfInt(i) ==
    IF i >= 0 THEN U64(i)
    ELSE [k \in 1..4 |-> (LimbBase - 1) - U64(-i - 1)[k]]

\* a - b on uint64: modulo 2^64, limb by limb with the borrow
RECURSIVE SubLimbs(_, _, _, _)
SubLimbs(a, b, k, borrow) ==
    IF k > 4 THEN <<>>
    ELSE <<(a[k] - b[k] - borrow) % LimbBase>>
         \o SubLimbs(a, b, k + 1, IF a[k] - b[k] - borrow < 0 THEN 1 ELSE 0)

SubU64(a, b) == SubLimbs(a, b, 1, 0)

\* a <= b on uint64
RECURSIVE LeqFrom(_, _, _)
LeqFrom(a, b, k) ==
    IF k = 0 THEN TRUE
    ELSE IF a[k] # b[k] THEN a[k] < b[k]
    ELSE LeqFrom(a, b, k - 1)

LeqU64(a, b) == LeqFrom(a, b, 4)

\* the lower bound handed to the query as $2
LowerBound(blockNumber, minBlocksToSync) ==
    SubU64(blockNumber, Uint64OfInt(minBlocksToSync))

\* the one row the query gives: the CTE path (block_number >= $2 and
\* block_number <= $1), the first block of the path of its lowest row, the
\* last block of the path of its highest row; {} stands for NULL
BoundsQuery(upper, lower) ==
    LET path == {r \in index : /\ LeqU64(lower, U64(r.block_number))
                               /\ LeqU64(U64(r.block_number), upper)}
        earliest_block_of_path ==
            OrderAscLimit1({r \in index :
                \E p \in OrderAscLimit1(path) : r.path = p.path})
        latest_block_of_path ==
            OrderDescLimit1({r \in index :
                \E p \in OrderDescLimit1(path) : r.path = p.path})
    IN [paths |-> {r.path : r \in path},
        min_block_number |-> {r.block_number : r \in earliest_block_of_path},
        max_block_number |-> {r.block_number : r \in latest_block_of_path}]

NoBounds ==
    [called |-> FALSE, blockNumber |-> U64(0), minBlocksToSync |-> 0,
     lower |-> U64(0), paths |-> {}, minBlockNumber |-> 0,
     maxBlockNumber |-> 0, err |-> FALSE]

\* sql.NullInt64.Int64 of a column: 0 for NULL
Int64Of(column) == IF column = {} THEN 0 ELSE CHOOSE n \in column : TRUE

\* RetrievePathsAndBlockBounds: the error of Acquire, of BlocksTableName or
\* of the query with zeros, else the scanned row
RetrievePathsAndBlockBounds ==
    /\ \E blockchain \in {"ethereum", "dogecoin"}, n \in 0..MaxIndexBlock,
          minBlocksToSync \in 0..MaxIndexBlock, ok \in BOOLEAN :
         LET blockNumber == U64(n)
             lower == LowerBound(blockNumber, minBlocksToSync)
             call == [NoBounds EXCEPT !.called = TRUE,
                                      !.blockNumber = blockNumber,
                                      !.minBlocksToSync = minBlocksToSync]
             row == BoundsQuery(blockNumber, lower)
         IN bounds' =
              IF BlocksTableName(blockchain).err THEN [call EXCEPT !.err = TRUE]
              ELSE IF ~ok THEN [call EXCEPT !.err = TRUE, !.lower = lower]
              ELSE [call EXCEPT !.lower = lower, !.paths = row.paths,
                                !.minBlockNumber = Int64Of(row.min_block_number),
                                !.maxBlockNumber = Int64Of(row.max_block_number)]
    /\ UNCHANGED <<notUpdates, index, updates>>
(* ============================ BULK INSERTS ============================ *)
(* What writeBlockIndexToDB, WriteEvents, WriteTransactions and           *)
(* WriteRawTransactions hand to executeBatchInsert: for each column of    *)
(* the statement, the array of its values.  A call is one step: the loop  *)
(* over the records, then the statement (or the return before it).  The   *)
(* value a record adds to a column is written as the record's place in    *)
(* the list.                                                              *)

\* the chains the inserts are built for: one without and one with an L1 chain
BulkChains == {"ethereum", "xai"}

HexDigits == {"0", "1", "2", "3", "4", "5", "6", "7", "8", "9",
              "a", "b", "c", "d", "e", "f", "A", "B", "C", "D", "E", "F"}

RECURSIVE IsHexDigits(_)
IsHexDigits(s) ==
    Len(s) = 0 \/ (SubSeq(s, 1, 1) \in HexDigits /\ IsHexDigits(SubSeq(s, 2, Len(s))))

\* decodeAddress: an address of fewer than two characters is the byte 0x00;
\* else hex.DecodeString(address[2:]), which fails on an odd number of
\* characters and on a character that is no hex digit
decodeAddress(address) ==
    IF Len(address) < 2 THEN [err |-> FALSE]
    ELSE [err |-> ~(Len(address) % 2 = 0
                      /\ IsHexDigits(SubSeq(address, 3, Len(address))))]

\* strings.TrimPrefix(hexString, "0x")
TrimPrefix0x(s) ==
    IF Len(s) >= 2 /\ SubSeq(s, 1, 2) = "0x" THEN SubSeq(s, 3, Len(s)) ELSE s

\* hexStringToBigInt: "" is nil without error; else the text without its 0x
\* is parsed in base 16 (big.Int.SetString: at least one digit; the inputs
\* here carry no sign)
hexStringToBigInt(hexString) ==
    IF hexString = "" THEN [err |-> FALSE]
    ELSE [err |-> ~(Len(TrimPrefix0x(hexString)) > 0
                      /\ IsHexDigits(TrimPrefix0x(hexString)))]

\* the address texts of the records: none, one character, a hex address, one
\* with characters that are no hex digits
Addresses == {"", "z", "0xab", "0xzz"}

\* the texts of the numeric fields: none, a hex number, one that is none
HexNumbers == {"", "0x1f", "0xg"}

\* the fields of a label the writers convert
Labels == [Address : Addresses, CallerAddress : Addresses,
           OriginAddress : Addresses]

GoodRawTransaction ==
    [FromAddress |-> "0xab", ToAddress |-> "0xab", Gas |-> "0x1f",
     GasPrice |-> "0x1f", MaxFeePerGas |-> "", MaxPriorityFeePerGas |-> "",
     Value |-> "0x1f"]

\* the fields of a raw transaction the writer converts: all well-formed, or
\* one of them with any of the texts
RawTransactions ==
    {[GoodRawTransaction EXCEPT ![f] = v] :
        f \in {"FromAddress", "ToAddress"}, v \in Addresses}
    \cup {[GoodRawTransaction EXCEPT ![f] = v] :
        f \in {"Gas", "GasPrice", "MaxFeePerGas", "MaxPriorityFeePerGas",
               "Value"}, v \in HexNumbers}

\* the lists of at most MaxRecords records
Lists(S) == UNION {[1..n -> S] : n \in 0..MaxRecords}

\* the keys valuesMap is created with
ValuesMapKeys(fn, blockchain) ==
    LET l1 == IF IsBlockchainWithL1Chain(blockchain)
              THEN {"l1_block_number"} ELSE {}
    IN CASE fn = "writeBlockIndexToDB" ->
              {"block_number", "block_hash", "block_timestamp", "parent_hash",
               "row_id", "path", "transactions_indexed_at", "logs_indexed_at"}
              \cup l1
         [] fn = "WriteEvents" ->
              {"id", "label", "transaction_hash", "log_index", "block_number",
               "block_hash", "block_timestamp", "caller_address",
               "origin_address", "address", "label_name", "label_type",
               "label_data"}
         [] fn = "WriteTransactions" ->
              {"id", "address", "block_number", "block_hash", "caller_address",
               "label_name", "label_type", "origin_address", "label",
               "transaction_hash", "label_data", "block_timestamp"}
         [] fn = "WriteRawTransactions" ->
              {"hash", "block_hash", "block_timestamp", "block_number",
               "from_address", "to_address", "gas", "gas_price", "input",
               "nonce", "max_fee_per_gas", "max_priority_fee_per_gas",
               "transaction_index", "transaction_type", "value", "indexed_at"}
              \cup l1

\* the keys of the updateValues calls made for one record, in order
UpdatedKeysButLast(fn, blockchain) ==
    SubSeq(Columns(fn, blockchain), 1, Len(Columns(fn, blockchain)) - 1)
UpdatedKeys(fn, blockchain) ==
    LET l1 == IF IsBlockchainWithL1Chain(blockchain)
              THEN <<"l1_block_number">> ELSE <<>>
    IN CASE fn = "writeBlockIndexToDB" ->
              <<"block_number", "block_hash", "block_timestamp", "parent_hash",
                "row_id", "path", "transactions_indexed_at", "logs_indexed_at">>
              \o l1
         [] fn = "WriteEvents" ->
              <<"id", "label", "transaction_hash", "log_index", "block_number",
                "block_hash", "block_timestamp", "caller_address",
                "origin_address", "address", "label_name", "label_type",
                "label_data">>
         [] fn = "WriteTransactions" ->
              <<"id", "address", "block_number", "block_hash", "caller_address",
                "label_name", "label_type", "origin_address", "label",
                "transaction_hash", "label_data", "block_timestamp">>
         [] fn = "WriteRawTransactions" ->
              <<"hash", "block_hash", "block_timestamp", "block_number",
                "from_address", "to_address", "gas", "gas_price", "input",
                "nonce", "max_fee_per_gas", "max_priority_fee_per_gas",
                "transaction_index", "transaction_type", "value">>
              \o l1

\* updateValues: a key valuesMap does not have is ignored
updateValues(valuesMap, key, val) ==
    IF key \notin DOMAIN valuesMap THEN valuesMap
    ELSE [valuesMap EXCEPT ![key] = Append(@, val)]

\* the updateValues calls of one record
RECURSIVE UpdateRecord(_, _, _)
UpdateRecord(valuesMap, keys, val) ==
    IF keys = <<>> THEN valuesMap
    ELSE UpdateRecord(updateValues(valuesMap, Head(keys), val), Tail(keys), val)

\* the three decodeAddress calls of a label: continue if one fails
LabelSkipped(label) ==
    \/ decodeAddress(label.CallerAddress).err
    \/ decodeAddress(label.OriginAddress).err
    \/ decodeAddress(label.Address).err

\* the conversions of a raw transaction: return err if one fails
RawTransactionFails(rawTransaction) ==
    \/ decodeAddress(rawTransaction.FromAddress).err
    \/ decodeAddress(rawTransaction.ToAddress).err
    \/ hexStringToBigInt(rawTransaction.Gas).err
    \/ hexStringToBigInt(rawTransaction.GasPrice).err
    \/ hexStringToBigInt(rawTransaction.MaxFeePerGas).err
    \/ hexStringToBigInt(rawTransaction.MaxPriorityFeePerGas).err
    \/ hexStringToBigInt(rawTransaction.Value).err

\* for _, record := range records { ... }: what the loop leaves in valuesMap,
\* and whether it returned an error from inside
RECURSIVE RangeOver(_, _, _, _, _)
RangeOver(fn, keys, records, i, valuesMap) ==
    IF i > Len(records) THEN [err |-> FALSE, valuesMap |-> valuesMap]
    ELSE IF fn \in {"WriteEvents", "WriteTransactions"} /\ LabelSkipped(records[i])
    THEN RangeOver(fn, keys, records, i + 1, valuesMap)
    ELSE IF fn = "WriteRawTransactions" /\ RawTransactionFails(records[i])
    THEN [err |-> TRUE, valuesMap |-> valuesMap]
    ELSE RangeOver(fn, keys, records, i + 1, UpdateRecord(valuesMap, keys, i))

\* executeBatchInsert: the statement, with values[column].Values for each
\* column (nothing for a column valuesMap does not have)
executeBatchInsert(tableName, columns, values) ==
    [table |-> tableName, columns |-> columns,
     arrays |-> [c \in 1..Len(columns) |->
                   IF columns[c] \in DOMAIN values THEN values[columns[c]]
                   ELSE <<>>]]

NoBulk == [fn |-> "none", blockchain |-> "", records |-> <<>>, sent |-> <<>>,
           ret |-> "none"]

\* one call of fn: valuesMap, the loop, executeBatchInsert and its result
BulkInsert(fn, blockchain, tableName, records) ==
    /\ LET looped == RangeOver(fn, UpdatedKeys(fn, blockchain), records, 1,
                               [k \in ValuesMapKeys(fn, blockchain) |-> <<>>])
           call == [fn |-> fn, blockchain |-> blockchain, records |-> records,
                    sent |-> <<>>, ret |-> "err"]
       IN IF looped.err
          THEN bulk' = call
          ELSE \E o \in {"nil", "err"} :
                 bulk' = [call EXCEPT
                            !.sent = <<executeBatchInsert(tableName,
                                          Columns(fn, blockchain),
                                          looped.valuesMap)>>,
                            !.ret = o]
    /\ UNCHANGED notBulk

BlockIndexInsert ==
    /\ bulk = NoBulk
    /\ \E chain \in BulkChains, n \in 0..MaxRecords :
           BulkInsert("writeBlockIndexToDB", chain, BlocksTableName(chain).name,
                   [i \in 1..n |-> i])

EventsInsert ==
    /\ bulk = NoBulk
    /\ \E chain \in BulkChains, events \in Lists(Labels) :
           BulkInsert("WriteEvents", chain, LabelsTableName(chain).name, events)

TransactionsInsert ==
    /\ bulk = NoBulk
    /\ \E chain \in BulkChains, transactions \in Lists(Labels) :
           BulkInsert("WriteTransactions", chain, LabelsTableName(chain).name,
                   transactions)

RawTransactionsInsert ==
    /\ bulk = NoBulk
    /\ \E chain \in BulkChains, raws \in Lists(RawTransactions) :
           BulkInsert("WriteRawTransactions", chain,
                   CustomerDBTransactionsTableName(chain).name, raws)

BulkNext ==
    \/ BlockIndexInsert \/ EventsInsert \/ TransactionsInsert
    \/ RawTransactionsInsert

(* ============== GetTransactionsLabels AND GetEventsLabels ============= *)
(* The two sequential label functions, on the ABI entries the decoder     *)
(* uses (their Once, their Abi).  A call is one step: the loop over the   *)
(* transactions or the logs that hit an entry of abiMap, to its return.   *)

\* a transaction or a log that hits an entry: the entry, whether its
\* arguments decode, and whether everything else the loop does for it (the
\* hex of the input, the receipt, the block, json.Marshal) succeeds
Hits == [entry : Entries, decodes : BOOLEAN, rest : {"nil", "err"}]

NoLabelsCall ==
    [fn |-> "none", hits |-> <<>>, at |-> 0, ret |-> "none", labels |-> <<>>,
     n |-> 0]

\* the loop from hit i on: e holds the entries (Once, Abi, parse count) as the
\* hits before i left them, acc the labels appended so far.  Once.Do runs
\* GetABI only if the gate is new, and only then is the err (initErr) of this
\* iteration set; the test that follows returns that err when entry.Abi is nil
RECURSIVE LabelsLoop(_, _, _, _, _)
LabelsLoop(hits, i, parses, e, acc) ==
    IF i > Len(hits)
    THEN [e |-> e, at |-> 0, ret |-> "nil", labels |-> acc]
    ELSE LET h == hits[i]
             runs == e.onceState[h.entry] = "new"
             parsed == IF runs
                       THEN GetABI(parses[h.entry], e.parseCount[h.entry] + 1)
                       ELSE e.abi[h.entry]
             initErr == IF runs /\ ~parses[h.entry] THEN "err" ELSE "nil"
             e1 == IF runs
                   THEN [onceState |-> [e.onceState EXCEPT ![h.entry] = "done"],
                         abi |-> [e.abi EXCEPT ![h.entry] = parsed],
                         parseCount |-> [e.parseCount EXCEPT ![h.entry] = @ + 1]]
                   ELSE e
         IN IF AbiUnusable(initErr, parsed)
            THEN [e |-> e1, at |-> i, ret |-> initErr, labels |-> <<>>]
            ELSE IF h.rest # "nil"
            THEN [e |-> e1, at |-> i, ret |-> h.rest, labels |-> <<>>]
            ELSE LabelsLoop(hits, i + 1, parses, e1,
                            Append(acc, [hit |-> i,
                                         label |-> IF h.decodes THEN "seer"
                                                   ELSE "seer-raw"]))

\* one call of fn on the hits of its block range
LabelsCall(fn, hits, parses) ==
    LET r == LabelsLoop(hits, 1, parses,
                        [onceState |-> onceState, abi |-> abi,
                         parseCount |-> parseCount], <<>>)
    IN /\ onceState' = r.e.onceState
       /\ abi' = r.e.abi
       /\ parseCount' = r.e.parseCount
       /\ lcall' = [fn |-> fn, hits |-> hits, at |-> r.at, ret |-> r.ret,
                    labels |-> r.labels, n |-> lcall.n + 1]
       /\ UNCHANGED <<notLabels, dArgs, dSync, errorChan, decodeErr, wk, dOut>>

\* FetchBlocksInRangeAsync failed, or the loop over the blocks' transactions
GetTransactionsLabels ==
    /\ lcall.n < MaxLabelCalls
    /\ \E hits \in UNION {[1..k -> Hits] : k \in 0..MaxHits},
          parses \in [Entries -> BOOLEAN] :
         LabelsCall("GetTransactionsLabels", hits, parses)

\* ClientFilterLogs failed, or the loop over the logs
GetEventsLabels ==
    /\ lcall.n < MaxLabelCalls
    /\ \E hits \in UNION {[1..k -> Hits] : k \in 0..MaxHits},
          parses \in [Entries -> BOOLEAN] :
         LabelsCall("GetEventsLabels", hits, parses)

LabelsNext == GetTransactionsLabels \/ GetEventsLabels

(* ========================= SPECIFICATIONS ============================= *)

vars == <<decVars, fetchVars, scanVars, namesVars, dbVars, jobsVars, updatesVars,
          bulkVars, labelsVars>>

\* one call of DecodeProtoEntireBlockToLabels, on any batch within the bounds;
\* no fetch is under way
DecInit ==
    /\ threads \in 1..MaxBlocks
    /\ addRawTransactions \in BOOLEAN
    /\ batch \in Batches
    /\ dNext = 1
    /\ semaphoreChan = 0
    /\ wgDecode = 0
    /\ errorChan = NoItems
    /\ decodeErr = "nil"
    /\ onceState = [e \in Entries |-> "new"]
    /\ abi = [e \in Entries |-> 0]
    /\ parseCount = [e \in Entries |-> 0]
    /\ wk = [b \in BlockIds |-> IdleWorker]
    /\ labels = NoItems
    /\ txLabels = NoItems
    /\ rawTransactions = NoItems
    /\ dResult = NoResult
    /\ from = 0
    /\ to = 0
    /\ maxRequests = 1
    /\ fNext = 1
    /\ sem = 0
    /\ wgFetch = 0
    /\ errChan = NoItems
    /\ blocks = <<>>
    /\ task = [n \in BlockNumbers |-> IdleTask]
    /\ fResult = NoResult
    /\ pipe = NoResult
    /\ seq = IdleSeq
    /\ q = [FromBlock |-> 0, ToBlock |-> 0]
    /\ provider = [kind |-> "free", L |-> 0]
    /\ fromBlock = 0
    /\ batchStep = 0
    /\ logs = <<>>
    /\ windows = <<>>
    /\ skipped = <<>>
    /\ asked = {}
    /\ flResult = NoResult
    /\ lookups = <<>>
    /\ db = {}
    /\ txn = NoTxn
    /\ wcall = IdleCall
    /\ jobs = <<>>
    /\ jcall = IdleJobsCall
    /\ index = {}
    /\ updates = NoUpdates
    /\ bounds = NoBounds
    /\ bulk = NoBulk
    /\ lcall = NoLabelsCall

SpecDecode == DecInit /\ [][DecNext]_vars

\* one call of FetchBlocksInRangeAsync, on any range within the bounds; no
\* decode is under way
FetchInit ==
    /\ from \in 0..MaxFrom
    /\ to \in from..(from + MaxRange - 1)
    /\ maxRequests \in 1..MaxRange
    /\ fNext = from
    /\ sem = 0
    /\ wgFetch = 0
    /\ errChan = NoItems
    /\ blocks = <<>>
    /\ task = [n \in BlockNumbers |-> IdleTask]
    /\ fResult = NoResult
    /\ pipe = NoResult
    /\ seq = [IdleSeq EXCEPT !.i = from]
    /\ threads = 1
    /\ addRawTransactions = FALSE
    /\ batch = <<>>
    /\ dNext = 1
    /\ semaphoreChan = 0
    /\ wgDecode = 0
    /\ errorChan = NoItems
    /\ decodeErr = "nil"
    /\ onceState = [e \in Entries |-> "new"]
    /\ abi = [e \in Entries |-> 0]
    /\ parseCount = [e \in Entries |-> 0]
    /\ wk = [b \in BlockIds |-> IdleWorker]
    /\ labels = NoItems
    /\ txLabels = NoItems
    /\ rawTransactions = NoItems
    /\ dResult = NoResult
    /\ q = [FromBlock |-> 0, ToBlock |-> 0]
    /\ provider = [kind |-> "free", L |-> 0]
    /\ fromBlock = 0
    /\ batchStep = 0
    /\ logs = <<>>
    /\ windows = <<>>
    /\ skipped = <<>>
    /\ asked = {}
    /\ flResult = NoResult
    /\ lookups = <<>>
    /\ db = {}
    /\ txn = NoTxn
    /\ wcall = IdleCall
    /\ jobs = <<>>
    /\ jcall = IdleJobsCall
    /\ index = {}
    /\ updates = NoUpdates
    /\ bounds = NoBounds
    /\ bulk = NoBulk
    /\ lcall = NoLabelsCall

SpecFetch == FetchInit /\ [][FetchNext]_vars

\* the Go scheduler runs every goroutine that can take a step
SpecFetchFair == SpecFetch /\ WF_vars(FetchNext)

\* one call of ClientFilterLogs, on any range and any provider within the
\* bounds; nothing else is under way
ScanInit ==
    /\ q \in {[FromBlock |-> f, ToBlock |-> t] :
                f \in 0..MaxFrom, t \in 0..(MaxFrom + MaxSpan - 1)}
    /\ q.FromBlock <= q.ToBlock
    /\ q.ToBlock - q.FromBlock + 1 <= MaxSpan
    /\ provider \in Providers
    /\ fromBlock = q.FromBlock
    /\ batchStep = q.ToBlock - q.FromBlock
    /\ logs = <<>>
    /\ windows = <<>>
    /\ skipped = <<>>
    /\ asked = {}
    /\ flResult = NoResult
    /\ threads = 1
    /\ addRawTransactions = FALSE
    /\ batch = <<>>
    /\ dNext = 1
    /\ semaphoreChan = 0
    /\ wgDecode = 0
    /\ errorChan = NoItems
    /\ decodeErr = "nil"
    /\ onceState = [e \in Entries |-> "new"]
    /\ abi = [e \in Entries |-> 0]
    /\ parseCount = [e \in Entries |-> 0]
    /\ wk = [b \in BlockIds |-> IdleWorker]
    /\ labels = NoItems
    /\ txLabels = NoItems
    /\ rawTransactions = NoItems
    /\ dResult = NoResult
    /\ from = 0
    /\ to = 0
    /\ maxRequests = 1
    /\ fNext = 1
    /\ sem = 0
    /\ wgFetch = 0
    /\ errChan = NoItems
    /\ blocks = <<>>
    /\ task = [n \in BlockNumbers |-> IdleTask]
    /\ fResult = NoResult
    /\ pipe = NoResult
    /\ seq = IdleSeq
    /\ lookups = <<>>
    /\ db = {}
    /\ txn = NoTxn
    /\ wcall = IdleCall
    /\ jobs = <<>>
    /\ jcall = IdleJobsCall
    /\ index = {}
    /\ updates = NoUpdates
    /\ bounds = NoBounds
    /\ bulk = NoBulk
    /\ lcall = NoLabelsCall

SpecScan == ScanInit /\ [][ScanNext]_vars

\* the goroutine that called ClientFilterLogs keeps running
SpecScanFair == SpecScan /\ WF_vars(ScanNext)

\* callers resolving table names, for any chain name; nothing else is under way
NamesInit ==
    /\ lookups = <<>>
    /\ threads = 1
    /\ addRawTransactions = FALSE
    /\ batch = <<>>
    /\ dNext = 1
    /\ semaphoreChan = 0
    /\ wgDecode = 0
    /\ errorChan = NoItems
    /\ decodeErr = "nil"
    /\ onceState = [e \in Entries |-> "new"]
    /\ abi = [e \in Entries |-> 0]
    /\ parseCount = [e \in Entries |-> 0]
    /\ wk = [b \in BlockIds |-> IdleWorker]
    /\ labels = NoItems
    /\ txLabels = NoItems
    /\ rawTransactions = NoItems
    /\ dResult = NoResult
    /\ from = 0
    /\ to = 0
    /\ maxRequests = 1
    /\ fNext = 1
    /\ sem = 0
    /\ wgFetch = 0
    /\ errChan = NoItems
    /\ blocks = <<>>
    /\ task = [n \in BlockNumbers |-> IdleTask]
    /\ fResult = NoResult
    /\ pipe = NoResult
    /\ seq = IdleSeq
    /\ q = [FromBlock |-> 0, ToBlock |-> 0]
    /\ provider = [kind |-> "free", L |-> 0]
    /\ fromBlock = 0
    /\ batchStep = 0
    /\ logs = <<>>
    /\ windows = <<>>
    /\ skipped = <<>>
    /\ asked = {}
    /\ flResult = NoResult
    /\ db = {}
    /\ txn = NoTxn
    /\ wcall = IdleCall
    /\ jobs = <<>>
    /\ jcall = IdleJobsCall
    /\ index = {}
    /\ updates = NoUpdates
    /\ bounds = NoBounds
    /\ bulk = NoBulk
    /\ lcall = NoLabelsCall

SpecNames == NamesInit /\ [][NamesNext]_vars

\* calls of WriteIndexes and WriteDataToCustomerDB one after the other on an
\* empty database; nothing else is under way
DbInit ==
    /\ db = {}
    /\ txn = NoTxn
    /\ wcall = IdleCall
    /\ lookups = <<>>
    /\ threads = 1
    /\ addRawTransactions = FALSE
    /\ batch = <<>>
    /\ dNext = 1
    /\ semaphoreChan = 0
    /\ wgDecode = 0
    /\ errorChan = NoItems
    /\ decodeErr = "nil"
    /\ onceState = [e \in Entries |-> "new"]
    /\ abi = [e \in Entries |-> 0]
    /\ parseCount = [e \in Entries |-> 0]
    /\ wk = [b \in BlockIds |-> IdleWorker]
    /\ labels = NoItems
    /\ txLabels = NoItems
    /\ rawTransactions = NoItems
    /\ dResult = NoResult
    /\ from = 0
    /\ to = 0
    /\ maxRequests = 1
    /\ fNext = 1
    /\ sem = 0
    /\ wgFetch = 0
    /\ errChan = NoItems
    /\ blocks = <<>>
    /\ task = [n \in BlockNumbers |-> IdleTask]
    /\ fResult = NoResult
    /\ pipe = NoResult
    /\ seq = IdleSeq
    /\ q = [FromBlock |-> 0, ToBlock |-> 0]
    /\ provider = [kind |-> "free", L |-> 0]
    /\ fromBlock = 0
    /\ batchStep = 0
    /\ logs = <<>>
    /\ windows = <<>>
    /\ skipped = <<>>
    /\ asked = {}
    /\ flResult = NoResult
    /\ jobs = <<>>
    /\ jcall = IdleJobsCall
    /\ index = {}
    /\ updates = NoUpdates
    /\ bounds = NoBounds
    /\ bulk = NoBulk
    /\ lcall = NoLabelsCall

SpecDb == DbInit /\ [][DbNext]_vars

\* operations on the ABI jobs one after the other, on a table that holds one
\* job put there by another program; nothing else is under way
JobsInit ==
    /\ jobs \in [{1} -> ExternalJobs]
    /\ jcall = [IdleJobsCall EXCEPT !.nextId = 1]
    /\ db = {}
    /\ txn = NoTxn
    /\ wcall = IdleCall
    /\ lookups = <<>>
    /\ threads = 1
    /\ addRawTransactions = FALSE
    /\ batch = <<>>
    /\ dNext = 1
    /\ semaphoreChan = 0
    /\ wgDecode = 0
    /\ errorChan = NoItems
    /\ decodeErr = "nil"
    /\ onceState = [e \in Entries |-> "new"]
    /\ abi = [e \in Entries |-> 0]
    /\ parseCount = [e \in Entries |-> 0]
    /\ wk = [b \in BlockIds |-> IdleWorker]
    /\ labels = NoItems
    /\ txLabels = NoItems
    /\ rawTransactions = NoItems
    /\ dResult = NoResult
    /\ from = 0
    /\ to = 0
    /\ maxRequests = 1
    /\ fNext = 1
    /\ sem = 0
    /\ wgFetch = 0
    /\ errChan = NoItems
    /\ blocks = <<>>
    /\ task = [n \in BlockNumbers |-> IdleTask]
    /\ fResult = NoResult
    /\ pipe = NoResult
    /\ seq = IdleSeq
    /\ q = [FromBlock |-> 0, ToBlock |-> 0]
    /\ provider = [kind |-> "free", L |-> 0]
    /\ fromBlock = 0
    /\ batchStep = 0
    /\ logs = <<>>
    /\ windows = <<>>
    /\ skipped = <<>>
    /\ asked = {}
    /\ flResult = NoResult
    /\ index = {}
    /\ updates = NoUpdates
    /\ bounds = NoBounds
    /\ bulk = NoBulk
    /\ lcall = NoLabelsCall

SpecJobs == JobsInit /\ [][JobsNext]_vars

\* calls of ReadUpdates on any block index of the chain; no ABI jobs, and
\* nothing else is under way
UpdatesInit ==
    /\ index \in IndexTables
    /\ updates = NoUpdates
    /\ bounds = NoBounds
    /\ bulk = NoBulk
    /\ lcall = NoLabelsCall
    /\ jobs = <<>>
    /\ jcall = IdleJobsCall
    /\ db = {}
    /\ txn = NoTxn
    /\ wcall = IdleCall
    /\ lookups = <<>>
    /\ threads = 1
    /\ addRawTransactions = FALSE
    /\ batch = <<>>
    /\ dNext = 1
    /\ semaphoreChan = 0
    /\ wgDecode = 0
    /\ errorChan = NoItems
    /\ decodeErr = "nil"
    /\ onceState = [e \in Entries |-> "new"]
    /\ abi = [e \in Entries |-> 0]
    /\ parseCount = [e \in Entries |-> 0]
    /\ wk = [b \in BlockIds |-> IdleWorker]
    /\ labels = NoItems
    /\ txLabels = NoItems
    /\ rawTransactions = NoItems
    /\ dResult = NoResult
    /\ from = 0
    /\ to = 0
    /\ maxRequests = 1
    /\ fNext = 1
    /\ sem = 0
    /\ wgFetch = 0
    /\ errChan = NoItems
    /\ blocks = <<>>
    /\ task = [n \in BlockNumbers |-> IdleTask]
    /\ fResult = NoResult
    /\ pipe = NoResult
    /\ seq = IdleSeq
    /\ q = [FromBlock |-> 0, ToBlock |-> 0]
    /\ provider = [kind |-> "free", L |-> 0]
    /\ fromBlock = 0
    /\ batchStep = 0
    /\ logs = <<>>
    /\ windows = <<>>
    /\ skipped = <<>>
    /\ asked = {}
    /\ flResult = NoResult

SpecUpdates == UpdatesInit /\ [][ReadUpdates]_vars

\* calls of RetrievePathsAndBlockBounds on any block index of the chain
SpecBounds == UpdatesInit /\ [][RetrievePathsAndBlockBounds]_vars

\* one bulk insert on any list of records within the bounds; nothing else is
\* under way
BulkInit ==
    /\ index = {}
    /\ updates = NoUpdates
    /\ bounds = NoBounds
    /\ bulk = NoBulk
    /\ lcall = NoLabelsCall
    /\ jobs = <<>>
    /\ jcall = IdleJobsCall
    /\ db = {}
    /\ txn = NoTxn
    /\ wcall = IdleCall
    /\ lookups = <<>>
    /\ threads = 1
    /\ addRawTransactions = FALSE
    /\ batch = <<>>
    /\ dNext = 1
    /\ semaphoreChan = 0
    /\ wgDecode = 0
    /\ errorChan = NoItems
    /\ decodeErr = "nil"
    /\ onceState = [e \in Entries |-> "new"]
    /\ abi = [e \in Entries |-> 0]
    /\ parseCount = [e \in Entries |-> 0]
    /\ wk = [b \in BlockIds |-> IdleWorker]
    /\ labels = NoItems
    /\ txLabels = NoItems
    /\ rawTransactions = NoItems
    /\ dResult = NoResult
    /\ from = 0
    /\ to = 0
    /\ maxRequests = 1
    /\ fNext = 1
    /\ sem = 0
    /\ wgFetch = 0
    /\ errChan = NoItems
    /\ blocks = <<>>
    /\ task = [n \in BlockNumbers |-> IdleTask]
    /\ fResult = NoResult
    /\ pipe = NoResult
    /\ seq = IdleSeq
    /\ q = [FromBlock |-> 0, ToBlock |-> 0]
    /\ provider = [kind |-> "free", L |-> 0]
    /\ fromBlock = 0
    /\ batchStep = 0
    /\ logs = <<>>
    /\ windows = <<>>
    /\ skipped = <<>>
    /\ asked = {}
    /\ flResult = NoResult

SpecBulk == BulkInit /\ [][BulkNext]_vars

\* calls of the two label functions on one abiMap whose entries are new;
\* nothing else is under way
LabelsInit ==
    /\ index = {}
    /\ updates = NoUpdates
    /\ bounds = NoBounds
    /\ bulk = NoBulk
    /\ lcall = NoLabelsCall
    /\ jobs = <<>>
    /\ jcall = IdleJobsCall
    /\ db = {}
    /\ txn = NoTxn
    /\ wcall = IdleCall
    /\ lookups = <<>>
    /\ threads = 1
    /\ addRawTransactions = FALSE
    /\ batch = <<>>
    /\ dNext = 1
    /\ semaphoreChan = 0
    /\ wgDecode = 0
    /\ errorChan = NoItems
    /\ decodeErr = "nil"
    /\ onceState = [e \in Entries |-> "new"]
    /\ abi = [e \in Entries |-> 0]
    /\ parseCount = [e \in Entries |-> 0]
    /\ wk = [b \in BlockIds |-> IdleWorker]
    /\ labels = NoItems
    /\ txLabels = NoItems
    /\ rawTransactions = NoItems
    /\ dResult = NoResult
    /\ from = 0
    /\ to = 0
    /\ maxRequests = 1
    /\ fNext = 1
    /\ sem = 0
    /\ wgFetch = 0
    /\ errChan = NoItems
    /\ blocks = <<>>
    /\ task = [n \in BlockNumbers |-> IdleTask]
    /\ fResult = NoResult
    /\ pipe = NoResult
    /\ seq = IdleSeq
    /\ q = [FromBlock |-> 0, ToBlock |-> 0]
    /\ provider = [kind |-> "free", L |-> 0]
    /\ fromBlock = 0
    /\ batchStep = 0
    /\ logs = <<>>
    /\ windows = <<>>
    /\ skipped = <<>>
    /\ asked = {}
    /\ flResult = NoResult

SpecLabels == LabelsInit /\ [][LabelsNext]_vars

(* ===================== PROPERTIES OF THE DECODER ====================== *)

\* the goroutines that are past Once.Do with a usable entry
PastGate == {b \in BlockIds : wk[b].pc \in {"decode", "read"}}

\* C1: however many block decoders reference an ABI entry, GetABI runs on it
\* at most once; the gate is done exactly when that one parse has run; and
\* every decoder past the gate holds the descriptor of that one parse.
C1_ParseOnce ==
    /\ \A e \in Entries :
         /\ parseCount[e] <= 1
         /\ (onceState[e] = "done") <=> (parseCount[e] = 1)
    /\ \A b \in PastGate :
         /\ parseCount[wk[b].entry] = 1
         /\ wk[b].seen = abi[wk[b].entry]
         /\ wk[b].seen = GetABI(TRUE, 1)

\* two decoders are past the gate of the same entry at the same time
C1_TwoDecodersOneEntry ==
    \E b1, b2 \in PastGate : b1 # b2 /\ wk[b1].entry = wk[b2].entry

\* a goroutine that is about to send the error of an unusable ABI entry
AbiErrorPending(b) == wk[b].pc = "send" /\ wk[b].pending.kind = "abi"

\* C2: when the one parse of an entry failed, no attempt that hits the entry
\* goes on to decode (so none emits a label), the parse is not run again, and
\* every such attempt gets its error recorded: a goroutine holding that error
\* is never left unable to send it with nothing else able to move.
C2_FailedParseIsSticky ==
    /\ \A e \in Entries : parseCount[e] <= 1
    /\ \A b \in PastGate : abi[wk[b].entry] # 0
    /\ \A b \in BlockIds : AbiErrorPending(b) => ENABLED DecNext

\* the label appended by goroutine b in this step, if any
AppendedTx(b) ==
    IF Len(wk'[b].localTxLabels) > Len(wk[b].localTxLabels)
    THEN {wk'[b].localTxLabels[Len(wk'[b].localTxLabels)]} ELSE {}

AppendedEvent(b) ==
    IF Len(wk'[b].localEventLabels) > Len(wk[b].localEventLabels)
    THEN {wk'[b].localEventLabels[Len(wk'[b].localEventLabels)]} ELSE {}

\* C3: a label a goroutine produces is "seer-raw" exactly when the argument
\* decode of its own transaction input or log failed, whatever the other
\* goroutines do meanwhile.
C3_RawIffOwnDecodeFailed ==
    [][\A b \in BlockIds :
         \A l \in AppendedTx(b) \cup AppendedEvent(b) :
            (l.label = "seer-raw") <=> ~wk[b].ownOk]_vars

\* C4: once a worker has recorded an error the call returns it: it comes back
\* with a non-nil aggregated error and with no event label, no transaction
\* label and no raw transaction, and it is never left unable to come back.
C4_ErrorReturnsNothingElse ==
    /\ (dResult.returned /\ Size(errorChan) > 0) =>
         /\ dResult.err # NoItems
         /\ dResult.labels = NoItems
         /\ dResult.txLabels = NoItems
         /\ dResult.rawTransactions = NoItems
    /\ (~dResult.returned /\ Size(errorChan) > 0) => ENABLED DecNext

\* C5: the call always returns: until it has, some goroutine or the caller
\* can take a step; and what it returns lists every error that was recorded.
C5_AlwaysReturns ==
    /\ dResult.returned \/ ENABLED DecNext
    /\ dResult.returned => dResult.err = errorChan

\* the block decoders that are running: started, and not yet past the
\* release of their semaphore token
Running == {b \in BlockIds : wk[b].pc \notin {"idle", "wgdone", "done"}}

\* s is strictly ascending under key
Ascending(s, key(_)) == \A i, j \in 1..Len(s) : i < j => key(s[i]) < key(s[j])

TxOf(l) == l.tx
\* position of an event label in the block: its transaction, then its log
EventOf(l) == l.tx * (MaxItems + 1) + l.log

\* C11: never more than threads block decoders run at once, and a block is
\* worked on by its one goroutine, transaction after transaction in the order
\* of the batch: the goroutine's index only covers the block's transactions,
\* its raw transactions are the block's first ones in order, each once, and
\* the labels it collected are its own block's, in ascending order.
C11_BoundedSequentialDecoders ==
    /\ Cardinality(Running) = semaphoreChan
    /\ Cardinality(Running) <= threads
    /\ \A b \in Running :
         LET w == wk[b] IN
         /\ b <= nBlocks
         /\ w.tx \in 1..(NumTxs(b) + 1)
         /\ Len(w.localRawTransactions) \in
               IF addRawTransactions THEN {w.tx - 1, w.tx} ELSE {0}
         /\ \A i \in 1..Len(w.localRawTransactions) :
               w.localRawTransactions[i] = <<b, i>>
         /\ Ascending(w.localTxLabels, TxOf)
         /\ Ascending(w.localEventLabels, EventOf)
         /\ \A i \in 1..Len(w.localTxLabels) :
               w.localTxLabels[i].blk = b /\ w.localTxLabels[i].tx <= w.tx
         /\ \A i \in 1..Len(w.localEventLabels) :
               w.localEventLabels[i].blk = b /\ w.localEventLabels[i].tx <= w.tx

\* threads decoders run, a further block waits for a token, and a running
\* decoder is at the second transaction of its block
C11_FullWithBlockWaiting ==
    /\ Cardinality(Running) = threads
    /\ dNext <= nBlocks
    /\ \E b \in Running : wk[b].tx = 2 /\ wk[b].pc = "txloop"


\* C23: a label a goroutine produces for a transaction input or a log whose
\* decode failed is seer-raw with the map of input_raw, abi, selector and
\* error as its data; one for a decode that succeeded is seer with the
\* decoded arguments as its data.
C23_RawLabelCarriesFallback ==
    [][\A b \in BlockIds :
         \A l \in AppendedTx(b) \cup AppendedEvent(b) :
            IF wk[b].ownOk
            THEN l.label = "seer" /\ l.data = DecodeResult(TRUE)
            ELSE l.label = "seer-raw" /\ l.data = "raw"]_vars

\* a goroutine that is about to send the error of a failed receipt lookup
ReceiptErrorPending(b) == wk[b].pc = "send" /\ wk[b].pending.kind = "receipt"

\* C31: the status of a transaction label is 1 when the receipt status is 1
\* and 0 otherwise; a transaction whose receipt lookup failed gets no
\* transaction label, and its error is recorded for the batch: the goroutine
\* holding it is never left unable to send it with nothing else able to move.
C31_StatusFromReceipt ==
    \A b \in BlockIds :
       /\ \A i \in 1..Len(wk[b].localTxLabels) :
             wk[b].localTxLabels[i].status =
                IF wk[b].localTxLabels[i].receipt = 1 THEN 1 ELSE 0
       /\ ReceiptErrorPending(b) =>
             /\ \A i \in 1..Len(wk[b].localTxLabels) :
                   wk[b].localTxLabels[i].tx # wk[b].pending.tx
             /\ ENABLED DecNext

\* a transaction without call data (an input of fewer than 10 characters), or
\* one whose first 10 input characters have no entry in abiMap
NoCallOrNoEntry(b, t) ==
    \/ Len(batch[b][t].Input) < 10
    \/ SubSeq(batch[b][t].Input, 1, 10) \notin abiMap

BatchTransactions ==
    {bt \in BlockIds \X (1..MaxItems) :
        bt[1] <= nBlocks /\ bt[2] <= NumTxs(bt[1])}

\* C33: a call that returns without error returns, with addRawTransactions
\* set, exactly one raw transaction for each transaction of the batch, plain
\* transfers and transactions without entry included; with it unset, none.
C33_OneRawPerTransaction ==
    (dResult.returned /\ dResult.err = NoItems) =>
        dResult.rawTransactions =
            IF addRawTransactions THEN SetToBag(BatchTransactions)
            ELSE EmptyBag

\* the call has returned two raw transactions, one of a plain transfer and
\* one of a call without entry
C33_RawOfTransferAndUnknownCall ==
    /\ dResult.returned
    /\ dResult.err = NoItems
    /\ addRawTransactions
    /\ nBlocks = 1
    /\ NumTxs(1) = 2
    /\ batch[1][1].Input = "0x"
    /\ batch[1][2].Input = "0x0123456700"
    /\ Size(dResult.rawTransactions) = 2

\* the logs of the batch, each by its block, its transaction and its place
BatchLogs ==
    {btl \in BlockIds \X (1..MaxItems) \X (1..MaxItems) :
        /\ btl[1] <= nBlocks
        /\ btl[2] <= NumTxs(btl[1])
        /\ btl[3] <= NumLogs(btl[1], btl[2])}

\* the event labels the call returned for the log at btl
LabelsOf(btl) ==
    {l \in BagToSet(dResult.labels) :
        l.blk = btl[1] /\ l.tx = btl[2] /\ l.log = btl[3]}

\* C34: a call that returns without error returns exactly one event label,
\* carrying the log's index, for every log of the batch whose topics[0] (or
\* "0x0" when it has no topics) has an entry in abiMap, whatever the input of
\* the enclosing transaction is, and none for every other log.
C34_OneEventLabelPerRegisteredLog ==
    (dResult.returned /\ dResult.err = NoItems) =>
        \A btl \in BatchLogs :
           LET topics == batch[btl[1]][btl[2]].Logs[btl[3]]
               selector == IF Len(topics) > 0 THEN topics[1] ELSE "0x0"
           IN IF selector \in abiMap
              THEN /\ Cardinality(LabelsOf(btl)) = 1
                   /\ \A l \in LabelsOf(btl) : CopiesIn(l, dResult.labels) = 1
              ELSE LabelsOf(btl) = {}
(* ===================== PROPERTIES OF THE FETCHER ====================== *)

\* the tasks whose GetBlockByNumber failed or panicked
Failed == {n \in blockNumbersRange : task[n].outcome \in {"error", "panic"}}

\* the entries of an aggregated error that task n sent
EntriesOf(err, n) == {x \in BagToSet(err) : x.task = n}

\* C6: when at least one task failed or panicked, the call returns no block
\* (also none of those fetched) and an aggregated error with one entry for
\* each failed task.
C6_FailureDiscardsBlocks ==
    (fResult.returned /\ Failed # {}) =>
        /\ fResult.blocks = <<>>
        /\ Size(fResult.err) = Cardinality(Failed)
        /\ \A n \in Failed : EntriesOf(fResult.err, n) # {}

\* the call returned an error although a block had been fetched
C6_FetchedBlockDiscarded ==
    /\ fResult.returned
    /\ Failed # {}
    /\ blocks # <<>>

\* the text of an error entry names block n
NamesBlock(x, n) == \E i \in 1..Len(x.text) : x.text[i] = ToString(n)

\* C7: the aggregated error names every block whose fetch failed, for an RPC
\* error as for a panic.
C7_ErrorNamesBlock ==
    fResult.returned =>
        \A n \in Failed : \E x \in EntriesOf(fResult.err, n) : NamesBlock(x, n)

\* C8: when every fetch succeeds the call returns to-from+1 blocks, each
\* number of [from, to] once, and no error.
C8_AllBlocksOnce ==
    (fResult.returned /\ \A n \in blockNumbersRange : task[n].outcome = "ok") =>
        /\ SeqToBag(fResult.blocks) = SetToBag(blockNumbersRange)
        /\ Len(fResult.blocks) = to - from + 1
        /\ fResult.err = NoItems

\* a range of more blocks than the semaphore admits was fetched whole
C8_WholeRangeFetched ==
    /\ fResult.returned
    /\ Failed = {}
    /\ Cardinality(blockNumbersRange) > maxRequests
    /\ Len(fResult.blocks) >= 2

\* C9: the call always returns, whatever the range, maxRequests and the tasks
\* that fail or panic.
C9_FetchReturns == <>(fResult.returned)

\* every task failed, more of them than the semaphore admits, and the call
\* returned
C9_AllFailedReturned ==
    /\ fResult.returned
    /\ Failed = blockNumbersRange
    /\ Cardinality(blockNumbersRange) > maxRequests
    /\ \E n \in Failed : task[n].outcome = "panic"

\* the tasks that hold a slot of sem, and those inside GetBlockByNumber
Holders == {n \in BlockNumbers : task[n].pc \in {"call", "append", "send", "release"}}
InFlight == {n \in BlockNumbers : task[n].pc = "call"}

\* C10: the tasks holding a semaphore slot, and so the calls in flight, are
\* never more than maxRequests; none holds a slot when the call returns.
C10_SemaphoreBounds ==
    /\ sem = Cardinality(Holders)
    /\ 0 <= sem /\ sem <= maxRequests
    /\ Cardinality(InFlight) <= maxRequests
    /\ fResult.returned => sem = 0

\* the semaphore is full, a task waits for a slot, and a task has panicked
C10_FullWithWaiter ==
    /\ sem = maxRequests
    /\ \E n \in BlockNumbers : task[n].pc = "acquire"
    /\ \E n \in BlockNumbers : task[n].outcome = "panic"

\* C12: the blocks FetchAsProtoBlocksWithEvents returns, and the batch
\* ProcessBlocksToBatch builds from them, are in ascending BlockNumber order,
\* whatever order the fetch tasks completed in.
C12_BlocksAscending ==
    (pipe.returned /\ ~pipe.err) =>
        LET bs == ProcessBlocksToBatch(pipe.blocksProto).Blocks
        IN \A i, j \in 1..Len(bs) :
              i < j => bs[i].BlockNumber < bs[j].BlockNumber


\* C28: FetchBlocksInRange asks for the blocks of [from, to] one after the
\* other in ascending order; when a block fails it returns the error and no
\* blocks and has asked for no block after it; when none fails it returns
\* all the blocks of the range in order
C28_SequentialFailFast ==
    /\ \A k \in 1..Len(seq.asked) : seq.asked[k] = from + k - 1
    /\ Len(seq.asked) <= to - from + 1
    /\ (seq.returned /\ seq.err) =>
          /\ seq.ret = <<>>
          /\ seq.asked = Append(seq.blocks, from + Len(seq.blocks))
    /\ (seq.returned /\ ~seq.err) =>
          /\ seq.asked = seq.ret
          /\ Len(seq.ret) = to - from + 1

\* witness of C28: the second block failed after the first was fetched, and
\* a third was never asked for
C28_StoppedAtSecond ==
    /\ seq.returned /\ seq.err
    /\ Len(seq.asked) = 2 /\ Len(seq.blocks) = 1
    /\ to > seq.asked[2]

\* C29: FetchAsProtoBlocksWithEvents returns one index row for each block
\* it returns; the i-th row has the number, hash, timestamp and parent hash of
\* the i-th block and the rowId i - 1, the rowIds being 0..n-1
C29_IndexRowPerBlock ==
    (pipe.returned /\ ~pipe.err) =>
        /\ Len(pipe.blocksIndex) = Len(pipe.blocksProto)
        /\ \A i \in 1..Len(pipe.blocksProto) :
              LET row == pipe.blocksIndex[i]
                  block == pipe.blocksProto[i]
              IN /\ row.BlockNumber = block.BlockNumber
                 /\ row.BlockHash = block.Hash
                 /\ row.BlockTimestamp = block.Timestamp
                 /\ row.ParentHash = block.ParentHash
                 /\ row.RowID = i - 1
        /\ {pipe.blocksIndex[i].RowID : i \in 1..Len(pipe.blocksIndex)}
              = 0..(Len(pipe.blocksProto) - 1)

\* witness of C29: a batch of three blocks that is not in the order of the
\* block numbers came back with its index
C29_IndexOfUnorderedBatch ==
    /\ pipe.returned /\ ~pipe.err
    /\ Len(pipe.blocksIndex) = 3
    /\ pipe.blocksProto[1].BlockNumber > pipe.blocksProto[2].BlockNumber

\* the transactions of the returned batch
ReturnedTransactions ==
    {pipe.blocksProto[i].Transactions[k] :
        i \in 1..Len(pipe.blocksProto), k \in {1}}

\* C30: in what FetchAsProtoBlocksWithEvents returns, the Logs of every
\* transaction are the scanned logs that carry its hash, each once and in the
\* order of the scan; a scanned log is in the Logs of the transaction with
\* its hash and of no other
C30_LogsByTransactionHash ==
    (pipe.returned /\ ~pipe.err) =>
        /\ \A tx \in ReturnedTransactions :
              /\ \A k \in 1..Len(tx.Logs) : tx.Logs[k].TransactionHash = tx.Hash
              /\ \E f \in [1..Len(tx.Logs) -> 1..Len(pipe.events)] :
                    /\ \A a, b \in 1..Len(tx.Logs) : a < b => f[a] < f[b]
                    /\ \A a \in 1..Len(tx.Logs) : pipe.events[f[a]] = tx.Logs[a]
                    /\ \A n \in 1..Len(pipe.events) :
                          pipe.events[n].TransactionHash = tx.Hash
                              => \E a \in 1..Len(tx.Logs) : f[a] = n
        /\ \A n \in 1..Len(pipe.events) :
              \E tx \in ReturnedTransactions :
                  tx.Hash = pipe.events[n].TransactionHash

\* witness of C30: two logs of one transaction were scanned, the higher log
\* index first, and another transaction of the batch has no log
C30_TwoLogsOneTransaction ==
    /\ pipe.returned /\ ~pipe.err
    /\ \E tx, other \in ReturnedTransactions :
          /\ Len(tx.Logs) = 2 /\ tx.Logs[1].LogIndex > tx.Logs[2].LogIndex
          /\ other.Logs = <<>> /\ other.Hash # tx.Hash
(* ===================== PROPERTIES OF THE SCANNER ====================== *)

\* the call returned with an error other than the range-limit error
ScanFailed == flResult.returned /\ flResult.err

\* C13: ClientFilterLogs returns, and every iteration of its loop that is
\* answered with logs or with the range-limit error either makes the batch
\* step strictly smaller or moves fromBlock strictly forward.
C13_ScanTerminates ==
    /\ <>(flResult.returned)
    /\ [][ScanFailed' \/ batchStep' < batchStep \/ fromBlock' > fromBlock]_vars

\* a provider that rejects the windows above its limit was scanned to the
\* end, through halvings, a skipped window and windows that were answered
C13_ScannedThroughLimit ==
    /\ flResult.returned /\ ~flResult.err
    /\ provider.kind = "limit"
    /\ skipped # <<>>
    /\ windows # <<>>
    /\ Cardinality(asked) > Len(skipped) + Len(windows)

\* C14: against a provider that rejects exactly the windows of more than L
\* blocks, the windows answered are ascending, contiguous and disjoint and
\* cover [from, to], and the result is the logs of each block of [from, to]
\* once, in ascending block order.
C14_EveryBlockOnce ==
    (flResult.returned /\ provider.kind = "limit") =>
        /\ ~flResult.err
        /\ flResult.logs = WindowBlocks(q.FromBlock, q.ToBlock)
        /\ windows # <<>>
        /\ windows[1][1] = q.FromBlock
        /\ windows[Len(windows)][2] = q.ToBlock
        /\ \A i \in 1..Len(windows) : windows[i][1] <= windows[i][2]
        /\ \A i \in 1..(Len(windows) - 1) : windows[i + 1][1] = windows[i][2] + 1

\* C15: a window the scanner gives up on holds a single block, and every
\* block it advances past without logs was requested in a window of its own.
C15_SkipsSingleBlocks ==
    \A i \in 1..Len(skipped) :
        /\ skipped[i][1] = skipped[i][2]
        /\ \A b \in skipped[i][1]..skipped[i][2] : <<b, b>> \in asked


(* ==================== PROPERTIES OF THE BULK INSERTS ================== *)

\* the text is 0x followed by whole bytes in hex digits
HexAddress(address) ==
    /\ Len(address) >= 2
    /\ SubSeq(address, 1, 2) = "0x"
    /\ Len(address) % 2 = 0
    /\ IsHexDigits(SubSeq(address, 3, Len(address)))

\* an address that is there and is not valid hex (a label of an event has no
\* caller address: the empty text)
NotValidHex(address) == address # "" /\ ~HexAddress(address)

\* a numeric field that is there and is not a hex number
NotHexNumber(text) ==
    /\ text # ""
    /\ LET digits == IF Len(text) >= 2 /\ SubSeq(text, 1, 2) = "0x"
                     THEN SubSeq(text, 3, Len(text)) ELSE text
       IN Len(digits) = 0 \/ ~IsHexDigits(digits)

InvalidLabel(label) ==
    \/ NotValidHex(label.Address)
    \/ NotValidHex(label.CallerAddress)
    \/ NotValidHex(label.OriginAddress)

InvalidRawTransaction(raw) ==
    \/ NotValidHex(raw.FromAddress) \/ NotValidHex(raw.ToAddress)
    \/ NotHexNumber(raw.Gas) \/ NotHexNumber(raw.GasPrice)
    \/ NotHexNumber(raw.MaxFeePerGas) \/ NotHexNumber(raw.MaxPriorityFeePerGas)
    \/ NotHexNumber(raw.Value)

\* the places of the list whose record is not invalid, in order
ValidPlaces(records, Invalid(_)) ==
    SelectSeq([i \in 1..Len(records) |-> i], LAMBDA i : ~Invalid(records[i]))

\* C35: WriteEvents and WriteTransactions send their insert with the values
\* of exactly the labels whose address, caller address and origin address are
\* valid hex, in the order of the list; WriteRawTransactions returns an error
\* and sends nothing when a raw transaction of the list has an address or a
\* numeric field that is not valid hex.
C35_InvalidSkippedOrAborts ==
    /\ bulk.fn \in {"WriteEvents", "WriteTransactions"} =>
         /\ Len(bulk.sent) = 1
         /\ \A c \in 1..Len(bulk.sent[1].arrays) :
               bulk.sent[1].arrays[c] = ValidPlaces(bulk.records, InvalidLabel)
    /\ (/\ bulk.fn = "WriteRawTransactions"
        /\ \E i \in 1..Len(bulk.records) : InvalidRawTransaction(bulk.records[i]))
         => bulk.ret = "err" /\ bulk.sent = <<>>

\* the places of the records the loop of the call did not skip
NotSkipped ==
    IF bulk.fn \in {"WriteEvents", "WriteTransactions"}
    THEN ValidPlaces(bulk.records, LabelSkipped)
    ELSE [i \in 1..Len(bulk.records) |-> i]

\* C36: in every bulk insert of the four writers, for an L1 chain or another,
\* each column of the statement has its array, and every array holds exactly
\* one value for each record that was not skipped, in the order of the list:
\* all arrays have the same length, the number of those records.
C36_ArraysAligned ==
    \A s \in 1..Len(bulk.sent) :
       LET st == bulk.sent[s] IN
       /\ st.columns = Columns(bulk.fn, bulk.blockchain)
       /\ Len(st.arrays) = Len(st.columns)
       /\ \A c \in 1..Len(st.arrays) :
             /\ st.arrays[c] = NotSkipped
             /\ Len(st.arrays[c]) = Len(NotSkipped)

\* an insert of two raw transactions for a chain with an L1 chain, and hence
\* with the sixteenth column, was sent
C36_TwoRawOnL1Chain ==
    /\ bulk.fn = "WriteRawTransactions"
    /\ IsBlockchainWithL1Chain(bulk.blockchain)
    /\ Len(bulk.sent) = 1
    /\ Len(bulk.sent[1].columns) = 16
    /\ Len(bulk.records) = 2
    /\ Len(bulk.sent[1].arrays[16]) = 2
(* =================== PROPERTIES OF THE DATABASE LAYER ================= *)

\* the lookups of the two whitelist functions
Whitelisted == {i \in 1..Len(lookups) :
                  lookups[i].fn \in {"BlocksTableName", "TransactionsTableName"}}

Suffix(fn) == IF fn = "BlocksTableName" THEN "_blocks" ELSE "_transactions"

\* C19: BlocksTableName and TransactionsTableName give each of the 18 chains
\* C the name C_blocks and C_transactions with no error; the same call gives
\* the same result; different chains get different names; any other chain
\* name gives an error and the empty name.
C19_TableNames ==
    /\ Cardinality(KnownChains) = 18
    /\ \A i \in Whitelisted :
         LET l == lookups[i] IN
         IF l.blockchain \in KnownChains
         THEN l.result = [name |-> l.blockchain \o Suffix(l.fn), err |-> FALSE]
         ELSE l.result = [name |-> "", err |-> TRUE]
    /\ \A i, j \in Whitelisted :
         (lookups[i].fn = lookups[j].fn /\ ~lookups[i].result.err
            /\ ~lookups[j].result.err) =>
           ((lookups[i].blockchain = lookups[j].blockchain)
              <=> (lookups[i].result.name = lookups[j].result.name))

\* the same function was asked for two known chains of which one's name
\* begins with the other's
C19_TwoChainsResolved ==
    \E i, j \in Whitelisted :
        /\ lookups[i].fn = lookups[j].fn
        /\ lookups[i].blockchain = "b3" /\ lookups[j].blockchain = "b3_sepolia"


\* a Write* function called by WriteDataToCustomerDB returned an error
WriteFailed ==
    /\ wcall.op = "WriteDataToCustomerDB"
    /\ wcall.failedIn \in {"WriteTransactions", "WriteEvents", "WriteRawTransactions"}

\* C16: when WriteTransactions, WriteEvents or WriteRawTransactions returns an
\* error (a database error or one of its own validation), none of the rows of
\* that call of WriteDataToCustomerDB becomes visible and the transaction ends
\* rolled back, never committed
C16_WriteErrorRollsBack ==
    WriteFailed =>
        /\ \A r \in db : r.by # "new"
        /\ wcall.pc = "done" => wcall.end = "rolledback"

\* a call of either function has returned (or panicked)
Returned(op) == wcall.op = op /\ wcall.pc = "done"

\* the insert or the commit of the call failed
InsertOrCommitFailed ==
    wcall.failedIn \in {"writeBlockIndexToDB", "WriteTransactions", "WriteEvents",
                        "WriteRawTransactions", "Commit"}

\* C17: WriteIndexes and WriteDataToCustomerDB return nil only if the
\* transaction was committed; a failure of an insert or of the commit leaves
\* the transaction rolled back and is returned to the caller as an error
C17_NilOnlyIfCommitted ==
    (Returned("WriteIndexes") \/ Returned("WriteDataToCustomerDB")) =>
        /\ wcall.ret = "nil" => wcall.end = "committed"
        /\ InsertOrCommitFailed => wcall.ret = "err" /\ wcall.end = "rolledback"

\* the step is the commit of a call that repeats, record for record, the call
\* before it, which was committed
RepeatCommits ==
    /\ wcall.repeat /\ wcall.prevOk
    /\ wcall.pc = "defer" /\ wcall'.end = "committed"

\* C18: a call of WriteIndexes or WriteDataToCustomerDB with the records of
\* the committed call before it leaves every table as it was: the same rows,
\* none added and none changed
C18_RepeatChangesNothing == [][RepeatCommits => db' = db]_vars

\* witness of C18: a call that wrote rows was repeated and committed again
C18_RepeatedCommitted ==
    /\ wcall.repeat /\ wcall.prevOk
    /\ wcall.pc = "done" /\ wcall.end = "committed" /\ wcall.ret = "nil"
    /\ wcall.sent # {} /\ db # {}

\* C20: WriteEvents, WriteTransactions and WriteRawTransactions for a chain
\* that is not in the switch fail when the table name is resolved: no INSERT
\* is sent for such a chain
C20_UnknownChainSendsNothing ==
    (wcall.op = "WriteDataToCustomerDB" /\ wcall.blockchain \notin KnownChains)
        => wcall.sent = {}

\* the chain's name begins with p
HasPrefix(s, p) == Len(s) >= Len(p) /\ SubSeq(s, 1, Len(p)) = p

\* the statement has the column l1_block_number
HasL1Column(st) == \E i \in 1..Len(st.columns) : st.columns[i] = "l1_block_number"

\* C21: the inserts of block indexes and of raw transactions have the column
\* l1_block_number exactly when IsBlockchainWithL1Chain holds of the chain,
\* and that holds exactly of the chains of the whitelist whose name begins
\* with arbitrum_, game7 or xai
C21_L1ColumnIffL1Chain ==
    /\ \A st \in wcall.sent :
          st.fn \in {"writeBlockIndexToDB", "WriteRawTransactions"}
              => (HasL1Column(st) <=> IsBlockchainWithL1Chain(wcall.blockchain))
    /\ \A c \in ChainNames :
          IsBlockchainWithL1Chain(c) <=>
              /\ c \in KnownChains
              /\ \E p \in {"arbitrum_", "game7", "xai"} : HasPrefix(c, p)

\* witness of C21: a call for a chain with an L1 chain sent its block indexes
\* with the column
C21_L1ColumnSent ==
    /\ wcall.op = "WriteIndexes" /\ wcall.pc = "done"
    /\ IsBlockchainWithL1Chain(wcall.blockchain)
    /\ \E st \in wcall.sent : HasL1Column(st)

\* the step is a call of op on the ABI jobs
JobsStep(op) == jcall'.n = jcall.n + 1 /\ jcall'.op = op

\* the selector derived from the ABI of the stored job
Derived(j) == Selector(AbiType(j.abi))

\* C22: after EnsureCorrectSelectors with WriteToDB has returned without
\* error, every job it went through has the selector derived from its ABI
\* stored (so that a second run finds nothing to update)
C22_SelectorsCorrected ==
    (jcall.op = "EnsureCorrectSelectors" /\ jcall.WriteToDB /\ jcall.ret = "nil")
        => \A id \in jcall.processed : jobs[id].abiSelector = Derived(jobs[id])

\* an Abi text in brackets, and one with something between them
InBrackets(text) ==
    Len(text) >= 2 /\ SubSeq(text, 1, 1) = "[" /\ SubSeq(text, Len(text), Len(text)) = "]"
InBracketsNotEmpty(text) == InBrackets(text) /\ Len(text) > 2

\* row is the copy made of the entry a for the customer
IsCopy(row, a, customer) ==
    /\ row.customer = customer /\ row.chain = a.Chain
    /\ row.abiSelector = a.AbiSelector /\ Wrapped(row.abi) = a.Abi
    /\ row.historical_crawl_status = "pending" /\ row.progress = 0

\* a call of CopyAbiJobs leaves the jobs that were there as they were, and
\* adds either nothing, or under fresh ids one copy of each entry that is
\* well-formed; it adds nothing when it returns an error
AllOrNothing(want) ==
    JobsStep("CopyAbiJobs") =>
        LET added == DOMAIN jobs' \ DOMAIN jobs
        IN /\ \A id \in DOMAIN jobs : id \in DOMAIN jobs' /\ jobs'[id] = jobs[id]
           /\ jcall'.ret = "err" => added = {}
           /\ \/ added = {}
              \/ /\ \A id \in added : id > jcall.nextId
                 /\ \E f \in [1..Len(want) -> added] :
                      /\ \A id \in added : \E i \in 1..Len(want) : f[i] = id
                      /\ \A i, k \in 1..Len(want) : f[i] = f[k] => i = k
                      /\ \A i \in 1..Len(want) : IsCopy(jobs'[f[i]], want[i], jcall'.dest)

\* C24 (as the code has it): CopyAbiJobs inserts a copy of every job of the
\* list whose ABI text is in brackets and has something between them, or no
\* copy at all; jobs of another format are passed over and the jobs already
\* stored are left as they were
C24_CopyAllOrNothing ==
    [][AllOrNothing(SelectSeq(jcall'.abiJobs,
                              LAMBDA a : InBracketsNotEmpty(a.Abi)))]_vars

\* C24 (as claimed): the same with every job whose ABI text is in brackets
\* taken as well-formed
C24_CopyAllInBrackets ==
    [][AllOrNothing(SelectSeq(jcall'.abiJobs,
                              LAMBDA a : InBrackets(a.Abi)))]_vars

\* witness of C24: a list with an entry in brackets and one without was
\* copied and committed
C24_CopiedAndSkipped ==
    /\ jcall.op = "CopyAbiJobs" /\ jcall.ret = "nil" /\ Len(jcall.abiJobs) = 2
    /\ \E i, k \in 1..2 : /\ InBracketsNotEmpty(jcall.abiJobs[i].Abi)
                          /\ ~InBrackets(jcall.abiJobs[k].Abi)
    /\ \E id \in DOMAIN jobs : jobs[id].customer = jcall.dest

\* C25: UpdateAbiJobsStatus(chain) sets the jobs of the chain that are
\* pending, active and have a deployment block to in_progress, and leaves
\* every other job as it was; no job is added or removed
C25_StatusFrame ==
    [][JobsStep("UpdateAbiJobsStatus") =>
        /\ DOMAIN jobs' = DOMAIN jobs
        /\ \A id \in DOMAIN jobs :
              LET j == jobs[id]
              IN IF /\ jcall'.ret = "nil"
                    /\ j.chain = jcall'.chain /\ j.status = "active"
                    /\ j.historical_crawl_status = "pending"
                    /\ j.deployment_block_number # {}
                 THEN /\ jobs'[id].historical_crawl_status = "in_progress"
                      /\ \A f \in DOMAIN j \ {"historical_crawl_status",
                                                "moonworm_task_pickedup"} :
                            jobs'[id][f] = j[f]
                 ELSE jobs'[id] = j]_vars

\* witness of C25: a call changed one job of the chain and left another job
\* of the same chain, still pending, as it was
C25_OneChangedOneLeft ==
    /\ jcall.op = "UpdateAbiJobsStatus" /\ jcall.ret = "nil"
    /\ \E a, b \in DOMAIN jobs :
          /\ jobs[a].chain = jcall.chain /\ jobs[b].chain = jcall.chain
          /\ jobs[a].historical_crawl_status = "in_progress"
          /\ jobs[a].moonworm_task_pickedup
          /\ jobs[b].historical_crawl_status = "pending"

\* C26: every stored job has historical_crawl_status pending, in_progress
\* or done and a progress from 0 to 100
C26_StatusAndProgressInRange ==
    \A id \in DOMAIN jobs :
        /\ jobs[id].historical_crawl_status \in {"pending", "in_progress", "done"}
        /\ jobs[id].progress \in 0..100

\* the rows of the index in the window of the last call of ReadUpdates
InWindow ==
    {r \in index : /\ r.block_number >= updates.fromBlock
                   /\ r.block_number <= updates.fromBlock + updates.minBlocksToSync}

\* C27: when the window [fromBlock, fromBlock + minBlocks] holds an indexed
\* row, the lastBlockNumber ReadUpdates returns is the highest block number
\* among the rows with the path of the window's highest row, and it is not
\* below fromBlock, so that lastBlockNumber + 1 is past fromBlock
C27_LastBlockOfLastPath ==
    (updates.called /\ ~updates.err /\ InWindow # {}) =>
        /\ updates.lastBlockNumber + 1 > updates.fromBlock
        /\ \E top \in InWindow, last \in index :
             /\ \A r \in InWindow : r.block_number <= top.block_number
             /\ last.path = top.path
             /\ last.block_number = updates.lastBlockNumber
             /\ \A r \in index : r.path = top.path
                                   => r.block_number <= last.block_number

\* witness of C27: the path of the window's highest row has a row below
\* fromBlock and its highest row beyond the window
C27_PathSpansWindow ==
    /\ updates.called /\ ~updates.err /\ InWindow # {}
    /\ updates.lastBlockNumber > updates.fromBlock + updates.minBlocksToSync
    /\ \E r, s \in index : /\ r.path = s.path
                          /\ r.block_number < updates.fromBlock
                          /\ s.block_number = updates.lastBlockNumber

\* C37: CopyAbiJobs returns nil only when its transaction was committed; a
\* failure of Begin, of Prepare, of an Exec or of Commit is returned as an
\* error
C37_CopyNilOnlyIfCommitted ==
    jcall.op = "CopyAbiJobs" =>
        /\ jcall.ret = "nil" => jcall.end = "committed"
        /\ jcall.end \in {"begin", "prepare", "exec", "commit"} => jcall.ret = "err"

\* C38: in every reachable state a job whose historical_crawl_status is done
\* has progress 100: once UpdateAbisAsDone has marked it, no operation but
\* DeleteJobs changes the two
C38_DoneStaysDone ==
    \A id \in DOMAIN jobs :
        jobs[id].historical_crawl_status = "done" => jobs[id].progress = 100

(* ================ PROPERTIES OF THE LABEL FUNCTIONS =================== *)

\* the step is a call that stopped at a hit whose entry had its one parse
\* behind it, failed, when the call began (no hit before it in the call
\* touches the entry without stopping there)
StoppedAtFailedEntry ==
    /\ lcall'.n = lcall.n + 1
    /\ lcall'.at > 0
    /\ onceState[lcall'.hits[lcall'.at].entry] = "done"
    /\ abi[lcall'.hits[lcall'.at].entry] = 0

\* C39: when GetTransactionsLabels or GetEventsLabels hits an ABI entry whose
\* one-time parse has already failed, it returns an error, never nil with
\* the labels missing.
C39_FailedEntryIsAnError ==
    [][StoppedAtFailedEntry => lcall'.ret = "err"]_vars

\* C40: the lower bound RetrievePathsAndBlockBounds hands to its query is
\* never greater than blockNumber, also when minBlocksToSync exceeds
\* blockNumber.
C40_LowerBoundNotAboveBlock ==
    bounds.called => LeqU64(bounds.lower, bounds.blockNumber)
====
